---- MODULE Spec2Model ----
(***************************************************************************)
(* DarManager backend: tenant isolation and booking overlap.               *)
(*                                                                         *)
(* The database tables are the state; every API operation is one action    *)
(* that reads the tables, answers the caller (variable last) and, when it  *)
(* succeeds, commits its write.  Python's None is the empty tuple and an   *)
(* Optional value v is the one-element tuple <<v>>, so that str(), the     *)
(* truthiness tests and the == comparisons of the source keep their        *)
(* meaning (None is not the string "None").                                *)
(***************************************************************************)
EXTENDS Integers, Sequences, FiniteSets, TLC

(* ------------------------------ bounds -------------------------------- *)

\* rows a table may hold at once (ids are drawn from 1..Max)
MaxProperties == 2
MaxGuests == 1
MaxBookings == 2
\* the calendar: days 1..MaxDate
MaxDate == 3
\* bookings held at once while every caller and table is exercised
MaxAccessBookings == 1
\* rooms stored at once
MaxRooms == 2
\* requests in flight at once in the interleaved specification
MaxRequests == 2
\* tenant uuids are drawn from 1..MaxTenantId
MaxTenantId == 4
MaxTenants == 3

VARIABLES
    tenants,     \* table tenants:    id -> [subdomain, is_active]
    users,       \* table users:      id -> [role, tenant_id]
    properties,  \* table properties: id -> [tenant_id, name]
    rooms,       \* table rooms:      id -> [property_id, status]
    guests,      \* table guests:     id -> [tenant_id, first_name]
    bookings,    \* table bookings:   id -> [property_id, room_id, guest_id,
                 \*                          check_in_date, check_out_date, status]
    last,        \* the last request served and its response
    requests,    \* booking writes in flight (interleaved specification only)
    gate         \* one probe of the access gate (gate specification only)

db == <<tenants, users, properties, rooms, guests, bookings>>
vars == <<tenants, users, properties, rooms, guests, bookings, last, requests, gate>>

(* --------------------------- Python values ---------------------------- *)

None == <<>>
Some(v) == <<v>>
\* str(x) of an Optional uuid: str(None) is the string "None"
str(x) == IF x = None THEN "None" ELSE ToString(x[1])
\* the uuid a uuid column stores when it is assigned the string s
uuid_of(s) == CHOOSE n \in 1..MaxTenantId : ToString(n) = s

Dates == 1..MaxDate
Names == {"a", "b"}

(* ------------------------------ models -------------------------------- *)

UserRole == {"super_admin", "admin", "manager", "staff"}
SUPER_ADMIN == "super_admin"
BookingStatus == {"pending", "confirmed", "checked_in", "checked_out", "cancelled"}

(* ----------------------------- responses ------------------------------ *)

\* app_exception_handler: status, error code and message of an AppException
AppException(status_code, detail, error_code) ==
    [status |-> status_code, code |-> error_code, detail |-> detail]
\* the identifier is accepted and not put in the message
NotFoundError(resource, identifier) ==
    AppException(404, <<resource, "not found">>, "RESOURCE_NOT_FOUND")
ValidationError(detail) == AppException(422, detail, "VALIDATION_ERROR")
ConflictError(detail) == AppException(409, detail, "RESOURCE_CONFLICT")
DependencyConflictError(resource, dependencies) ==
    AppException(409, <<"Cannot delete", resource, "because it has", dependencies,
                        "Please delete the related items first">>,
                 "DEPENDENCY_CONFLICT")
\* a plain fastapi.HTTPException: the framework's handler, no error code
HTTPException(status_code, detail) ==
    [status |-> status_code, code |-> "", detail |-> detail]
\* general_exception_handler: the exception's text is logged, not returned
general_exception_handler ==
    [status |-> 500, code |-> "INTERNAL_ERROR", detail |-> <<"An internal error occurred">>]
\* a handler that returned normally
Success == [status |-> 200, code |-> "", detail |-> <<>>]

(* --------------------------- tenant.py -------------------------------- *)

get_user_tenant_id(user) ==
    IF user.role = SUPER_ADMIN THEN None
    ELSE IF user.tenant_id # None THEN Some(str(user.tenant_id)) ELSE None

validate_tenant_access_AnyTenant(user, tenant_id) ==
    IF user.role = SUPER_ADMIN THEN TRUE
    ELSE (get_user_tenant_id(user) = None) = (tenant_id = None)

validate_tenant_access(user, tenant_id) ==
    IF user.role = SUPER_ADMIN THEN TRUE
    ELSE get_user_tenant_id(user) = tenant_id

(* ------------------------- state after set-up ------------------------- *)

\* Two tenants, the super admin of the database init script, one user of
\* each tenant (create_tenant_admin) and one user without a tenant
\* (register stores no tenant_id); the other tables are empty.
SeedTenants ==
    (1 :> [subdomain |-> "alpha", is_active |-> TRUE]) @@
    (2 :> [subdomain |-> "beta", is_active |-> TRUE])
SeedUsers ==
    (1 :> [role |-> "super_admin", tenant_id |-> None]) @@
    (2 :> [role |-> "admin", tenant_id |-> Some(1)]) @@
    (3 :> [role |-> "admin", tenant_id |-> Some(2)]) @@
    (4 :> [role |-> "staff", tenant_id |-> None])

Idle == [op |-> "none", caller |-> None, target |-> None,
         response |-> Success, result |-> {}]

Respond(op, user_id, target, response, result) ==
    last' = [op |-> op, caller |-> Some(user_id), target |-> target,
             response |-> response, result |-> result]

\* the id of a new row: an id no row of the table has
new_id(table, max) == CHOOSE i \in 1..max : i \notin DOMAIN table /\ \A j \in 1..(i - 1) : j \in DOMAIN table
Remove(table, id) == [i \in DOMAIN table \ {id} |-> table[i]]

PropertyIds == 1..MaxProperties
GuestIds == 1..MaxGuests
BookingIds == 1..MaxBookings

(* ----------------------- property_service.py -------------------------- *)

get_properties_for_user(user) ==
    LET tenant_id == get_user_tenant_id(user)
    IN  IF user.role = SUPER_ADMIN THEN DOMAIN properties
        ELSE IF tenant_id = None THEN {}
        ELSE {p \in DOMAIN properties : properties[p].tenant_id = Some(uuid_of(tenant_id[1]))}

get_property_by_id(property_id) ==
    IF property_id \in DOMAIN properties THEN Some(property_id) ELSE None

\* PropertyCreate declares no tenant_id: .dict() holds the declared fields only
PropertyCreate_dict(property_data) == [name |-> property_data.name]

assign_tenant_id_FromPayload(payload, tenant_id) ==
    IF payload.tenant_id # None THEN payload.tenant_id ELSE Some(uuid_of(tenant_id[1]))

\* property_dict['tenant_id'] = tenant_id, guest_dict['tenant_id'] = tenant_id:
\* the column takes the caller's tenant whatever the payload carried
assign_tenant_id(payload, tenant_id) == Some(uuid_of(tenant_id[1]))

create_rejection_OneMessage(user, kind) ==
    IF get_user_tenant_id(user) = None
    THEN Some(HTTPException(400, <<"User must be associated with a tenant to create", kind>>))
    ELSE None

\* lines 42-55 of create_property and 53-66 of create_guest
create_rejection(user, kind) ==
    IF user.role = SUPER_ADMIN /\ get_user_tenant_id(user) = None
    THEN Some(HTTPException(400, <<"Super admin must use tenant-specific endpoints to create", kind>>))
    ELSE IF get_user_tenant_id(user) = None
    THEN Some(HTTPException(400, <<"User must be associated with a tenant to create", kind>>))
    ELSE None

room_count_Unchecked(property_id) == Cardinality({})

room_count(property_id) == Cardinality({r \in DOMAIN rooms : rooms[r].property_id = property_id})
property_booking_count_Active(property_id) ==
    Cardinality({b \in DOMAIN bookings : /\ bookings[b].property_id = property_id
                                         /\ bookings[b].status \notin {"cancelled", "checked_out"}})

property_booking_count(property_id) ==
    Cardinality({b \in DOMAIN bookings : bookings[b].property_id = property_id})

\* lines 97-113 of delete_property: the dependencies that block the delete
property_dependencies(property_id) ==
    (IF room_count(property_id) > 0
     THEN <<room_count(property_id), "room(s)">> ELSE <<>>) \o
    (IF property_booking_count(property_id) > 0
     THEN <<property_booking_count(property_id), "booking(s)">> ELSE <<>>)

PropertyService_update_property_response(property_id) ==
    IF get_property_by_id(property_id) = None
    THEN HTTPException(404, <<"Property not found">>)
    ELSE Success

PropertyService_delete_property_response(property_id) ==
    IF get_property_by_id(property_id) = None
    THEN HTTPException(404, <<"Property not found">>)
    ELSE IF property_dependencies(property_id) # <<>>
    THEN DependencyConflictError(<<"property", properties[property_id].name>>,
                                 property_dependencies(property_id))
    ELSE Success

(* -------------------- endpoints/properties.py ------------------------- *)

PropertyPayloads == [name : Names, tenant_id : {None} \cup {Some(t) : t \in DOMAIN tenants}]

property_gate_Forbidden(user, property_id) ==
    IF get_property_by_id(property_id) = None THEN Some(NotFoundError("Property", property_id))
    ELSE IF ~validate_tenant_access(user, Some(str(properties[property_id].tenant_id)))
         THEN Some(AppException(403, <<"Access forbidden">>, "FORBIDDEN"))
    ELSE None

\* the check get_property, update_property and delete_property start with
property_gate(user, property_id) ==
    IF get_property_by_id(property_id) = None THEN Some(NotFoundError("Property", property_id))
    ELSE IF ~validate_tenant_access(user, Some(str(properties[property_id].tenant_id)))
         THEN Some(NotFoundError("Property", property_id))
    ELSE None

get_properties(user_id) ==
    /\ Respond("get_properties", user_id, None, Success, get_properties_for_user(users[user_id]))
    /\ UNCHANGED db
    /\ UNCHANGED <<requests, gate>>

get_property(user_id, property_id) ==
    /\ LET denied == property_gate(users[user_id], property_id)
       IN  IF denied # None
           THEN Respond("get_property", user_id, Some(property_id), denied[1], {})
           ELSE Respond("get_property", user_id, Some(property_id), Success, {property_id})
    /\ UNCHANGED db
    /\ UNCHANGED <<requests, gate>>

create_property(user_id, property_create) ==
    /\ LET user == users[user_id]
           rejection == create_rejection(user, "properties")
           property_dict == PropertyCreate_dict(property_create)
           id == new_id(properties, MaxProperties)
       IN  IF rejection # None THEN
               /\ Respond("create_property", user_id, None, rejection[1], {})
               /\ UNCHANGED properties
           ELSE
               /\ Cardinality(DOMAIN properties) < MaxProperties
               /\ properties' = properties @@
                      (id :> [tenant_id |-> assign_tenant_id(property_create, get_user_tenant_id(user)),
                              name |-> property_dict.name])
               /\ Respond("create_property", user_id, None, Success, {id})
    /\ UNCHANGED <<tenants, users, rooms, guests, bookings>>
    /\ UNCHANGED <<requests, gate>>

update_property(user_id, property_id, property_update) ==
    /\ LET denied == property_gate(users[user_id], property_id)
           response == IF denied # None THEN denied[1]
                       ELSE PropertyService_update_property_response(property_id)
       IN  /\ Respond("update_property", user_id, Some(property_id), response,
                      IF response = Success THEN {property_id} ELSE {})
           /\ properties' =
                  IF response = Success
                  THEN [properties EXCEPT ![property_id].name = PropertyCreate_dict(property_update).name]
                  ELSE properties
    /\ UNCHANGED <<tenants, users, rooms, guests, bookings>>
    /\ UNCHANGED <<requests, gate>>

delete_property(user_id, property_id) ==
    /\ LET denied == property_gate(users[user_id], property_id)
           response == IF denied # None THEN denied[1]
                       ELSE PropertyService_delete_property_response(property_id)
       IN  /\ Respond("delete_property", user_id, Some(property_id), response, {})
           /\ properties' = IF response = Success THEN Remove(properties, property_id) ELSE properties
    /\ UNCHANGED <<tenants, users, rooms, guests, bookings>>
    /\ UNCHANGED <<requests, gate>>

(* ------------------------- guest_service.py --------------------------- *)

get_guests_for_user(user) ==
    LET tenant_id == get_user_tenant_id(user)
    IN  IF user.role = SUPER_ADMIN THEN DOMAIN guests
        ELSE IF tenant_id = None THEN {}
        ELSE {g \in DOMAIN guests : guests[g].tenant_id = Some(uuid_of(tenant_id[1]))}

get_guest_with_validation(guest_id, user) ==
    IF guest_id \notin DOMAIN guests THEN None
    ELSE IF ~validate_tenant_access(user, Some(str(guests[guest_id].tenant_id))) THEN None
    ELSE Some(guest_id)

\* GuestCreate declares no tenant_id: .dict() holds the declared fields only
GuestCreate_dict(guest_data) == [first_name |-> guest_data.first_name]

guest_booking_count_Active(guest_id) ==
    Cardinality({b \in DOMAIN bookings : /\ bookings[b].guest_id = guest_id
                                         /\ bookings[b].status # "cancelled"})

guest_booking_count(guest_id) ==
    Cardinality({b \in DOMAIN bookings : bookings[b].guest_id = guest_id})

delete_guest_response(guest_id, user) ==
    IF get_guest_with_validation(guest_id, user) = None THEN NotFoundError("Guest", guest_id)
    ELSE IF guest_booking_count(guest_id) > 0
    THEN DependencyConflictError(<<"guest", guests[guest_id].first_name>>,
                                 <<guest_booking_count(guest_id), "booking(s)">>)
    ELSE Success

GuestPayloads == [first_name : Names, tenant_id : {None} \cup {Some(t) : t \in DOMAIN tenants}]
\* GuestUpdate with exclude_unset: first_name is sent or left out
GuestUpdates == {None} \cup {Some(n) : n \in Names}

get_guests(user_id) ==
    /\ Respond("get_guests", user_id, None, Success, get_guests_for_user(users[user_id]))
    /\ UNCHANGED db
    /\ UNCHANGED <<requests, gate>>

get_guest(user_id, guest_id) ==
    /\ IF get_guest_with_validation(guest_id, users[user_id]) = None
       THEN Respond("get_guest", user_id, Some(guest_id), NotFoundError("Guest", guest_id), {})
       ELSE Respond("get_guest", user_id, Some(guest_id), Success, {guest_id})
    /\ UNCHANGED db
    /\ UNCHANGED <<requests, gate>>

create_guest(user_id, guest_data) ==
    /\ LET user == users[user_id]
           rejection == create_rejection(user, "guests")
           guest_dict == GuestCreate_dict(guest_data)
           id == new_id(guests, MaxGuests)
       IN  IF rejection # None THEN
               /\ Respond("create_guest", user_id, None, rejection[1], {})
               /\ UNCHANGED guests
           ELSE
               /\ Cardinality(DOMAIN guests) < MaxGuests
               /\ guests' = guests @@
                      (id :> [tenant_id |-> assign_tenant_id(guest_data, get_user_tenant_id(user)),
                              first_name |-> guest_dict.first_name])
               /\ Respond("create_guest", user_id, None, Success, {id})
    /\ UNCHANGED <<tenants, users, properties, rooms, bookings>>
    /\ UNCHANGED <<requests, gate>>

update_guest(user_id, guest_id, guest_data) ==
    /\ IF get_guest_with_validation(guest_id, users[user_id]) = None THEN
           /\ Respond("update_guest", user_id, Some(guest_id), NotFoundError("Guest", guest_id), {})
           /\ UNCHANGED guests
       ELSE
           /\ guests' = IF guest_data = None THEN guests
                        ELSE [guests EXCEPT ![guest_id].first_name = guest_data[1]]
           /\ Respond("update_guest", user_id, Some(guest_id), Success, {guest_id})
    /\ UNCHANGED <<tenants, users, properties, rooms, bookings>>
    /\ UNCHANGED <<requests, gate>>

delete_guest(user_id, guest_id) ==
    /\ LET response == delete_guest_response(guest_id, users[user_id])
       IN  /\ Respond("delete_guest", user_id, Some(guest_id), response, {})
           /\ guests' = IF response = Success THEN Remove(guests, guest_id) ELSE guests
    /\ UNCHANGED <<tenants, users, properties, rooms, bookings>>
    /\ UNCHANGED <<requests, gate>>

(* ------------------------ booking_service.py -------------------------- *)

ActiveStatuses == {"pending", "confirmed", "checked_in"}

get_bookings_for_user_Unscoped(user, guest_id, property_id) ==
    {b \in DOMAIN bookings :
        /\ guest_id # None => bookings[b].guest_id = guest_id[1]
        /\ property_id # None => bookings[b].property_id = property_id[1]}

get_bookings_for_user(user, guest_id, property_id) ==
    LET tenant_id == get_user_tenant_id(user)
        visible ==
            IF user.role = SUPER_ADMIN THEN DOMAIN bookings
            ELSE IF tenant_id = None THEN {}
            ELSE {b \in DOMAIN bookings :
                    /\ bookings[b].property_id \in DOMAIN properties
                    /\ properties[bookings[b].property_id].tenant_id = Some(uuid_of(tenant_id[1]))}
    IN  {b \in visible :
            /\ guest_id # None => bookings[b].guest_id = guest_id[1]
            /\ property_id # None => bookings[b].property_id = property_id[1]}

get_booking_with_validation_SuperScoped(booking_id, user) ==
    IF booking_id \notin DOMAIN bookings THEN None
    ELSE IF get_user_tenant_id(user) = None THEN None
    ELSE IF \/ bookings[booking_id].property_id \notin DOMAIN properties
            \/ str(properties[bookings[booking_id].property_id].tenant_id) # get_user_tenant_id(user)[1]
         THEN None
    ELSE Some(booking_id)

get_booking_with_validation(booking_id, user) ==
    IF booking_id \notin DOMAIN bookings THEN None
    ELSE IF user.role # SUPER_ADMIN THEN
        LET tenant_id == get_user_tenant_id(user)
            property_id == bookings[booking_id].property_id
        IN  IF tenant_id = None THEN None
            ELSE IF \/ property_id \notin DOMAIN properties
                    \/ str(properties[property_id].tenant_id) # tenant_id[1]
                 THEN None
            ELSE Some(booking_id)
    ELSE Some(booking_id)

overlapping_bookings_Closed(property_id, exclude, check_in, check_out) ==
    {b \in DOMAIN bookings \ exclude :
        /\ bookings[b].property_id = property_id
        /\ bookings[b].status \in ActiveStatuses
        /\ bookings[b].check_out_date >= check_in
        /\ bookings[b].check_in_date <= check_out}

overlapping_bookings_NoExclude(property_id, exclude, check_in, check_out) ==
    {b \in DOMAIN bookings :
        /\ bookings[b].property_id = property_id
        /\ bookings[b].status \in ActiveStatuses
        /\ bookings[b].check_out_date > check_in
        /\ bookings[b].check_in_date < check_out}

\* the overlap query of create_booking (exclude = {}) and of update_booking
\* (exclude = {booking_id}); .first() answers with any one row of it
overlapping_bookings(property_id, exclude, check_in, check_out) ==
    {b \in DOMAIN bookings \ exclude :
        /\ bookings[b].property_id = property_id
        /\ bookings[b].status \in ActiveStatuses
        /\ bookings[b].check_out_date > check_in
        /\ bookings[b].check_in_date < check_out}

already_booked(b) ==
    ConflictError(<<"Property is already booked from", bookings[b].check_in_date,
                    "to", bookings[b].check_out_date>>)

dates_invalid_Strict(check_in, check_out) == check_in > check_out

\* if check_in >= check_out: raise ValidationError
dates_invalid(check_in, check_out) == check_in >= check_out

must_be_after == ValidationError(<<"Check-out date must be after check-in date">>)

\* lines 78-98 of create_booking: the first failing validation, or None
create_booking_rejection(booking_data, user) ==
    IF booking_data.property_id \notin DOMAIN properties
    THEN Some(NotFoundError("Property", booking_data.property_id))
    ELSE IF ~validate_tenant_access(user, Some(str(properties[booking_data.property_id].tenant_id)))
    THEN Some(NotFoundError("Property", booking_data.property_id))
    ELSE IF booking_data.guest_id \notin DOMAIN guests
    THEN Some(NotFoundError("Guest", booking_data.guest_id))
    ELSE IF ~validate_tenant_access(user, Some(str(guests[booking_data.guest_id].tenant_id)))
    THEN Some(NotFoundError("Guest", booking_data.guest_id))
    ELSE IF dates_invalid(booking_data.check_in_date, booking_data.check_out_date)
    THEN Some(must_be_after)
    ELSE None

\* lines 78-111 of create_booking: the responses the request may get; Success
\* when it goes on to the insert
create_booking_responses(booking_data, user) ==
    LET rejection == create_booking_rejection(booking_data, user)
        overlapping == overlapping_bookings(booking_data.property_id, {},
                           booking_data.check_in_date, booking_data.check_out_date)
    IN  IF rejection # None THEN {rejection[1]}
        ELSE IF overlapping # {} THEN {already_booked(b) : b \in overlapping}
        ELSE {Success}

\* Booking(**booking_data.dict())
Booking(booking_data) ==
    [property_id |-> booking_data.property_id, room_id |-> booking_data.room_id,
     guest_id |-> booking_data.guest_id, check_in_date |-> booking_data.check_in_date,
     check_out_date |-> booking_data.check_out_date, status |-> booking_data.status]

\* 'check_in_date' in update_data or 'check_out_date' in update_data
update_has_dates(update_data) ==
    update_data.check_in_date # None \/ update_data.check_out_date # None
\* update_data.get('check_in_date', booking.check_in_date), an Optional date
update_check_in(update_data, booking) ==
    IF update_data.check_in_date # None THEN update_data.check_in_date[1]
    ELSE Some(booking.check_in_date)
update_check_out(update_data, booking) ==
    IF update_data.check_out_date # None THEN update_data.check_out_date[1]
    ELSE Some(booking.check_out_date)

\* lines 123-150 of update_booking: the responses the request may get; Success
\* when it goes on to the setattr loop
update_booking_responses(booking_id, update_data, user) ==
    IF get_booking_with_validation(booking_id, user) = None
    THEN {NotFoundError("Booking", booking_id)}
    ELSE IF ~update_has_dates(update_data) THEN {Success}
    ELSE LET booking == bookings[booking_id]
             check_in == update_check_in(update_data, booking)
             check_out == update_check_out(update_data, booking)
         IN  \* None >= date raises TypeError
             IF check_in = None \/ check_out = None THEN {general_exception_handler}
             ELSE IF dates_invalid(check_in[1], check_out[1]) THEN {must_be_after}
             ELSE LET overlapping == overlapping_bookings(booking.property_id, {booking_id},
                                                          check_in[1], check_out[1])
                  IN  IF overlapping # {} THEN {already_booked(b) : b \in overlapping}
                      ELSE {Success}

\* for field, value in update_data.items(): setattr(booking, field, value)
setattr_all(booking, update_data) ==
    [booking EXCEPT
        !.check_in_date = IF update_data.check_in_date # None
                          THEN update_data.check_in_date[1][1] ELSE @,
        !.check_out_date = IF update_data.check_out_date # None
                           THEN update_data.check_out_date[1][1] ELSE @,
        !.status = IF update_data.status # None THEN update_data.status[1] ELSE @]

\* request bodies: BookingCreate, and BookingUpdate with a date field left
\* out (None), sent as a date (Some(Some(d))) or sent as null (Some(None))
RoomChoices == {None} \cup {Some(r) : r \in DOMAIN rooms}
BookingCreates(property_ids, guest_ids, check_ins, check_outs, statuses) ==
    [property_id : property_ids, room_id : RoomChoices, guest_id : guest_ids,
     check_in_date : check_ins, check_out_date : check_outs, status : statuses]
DateFields(dates) == {None} \cup {Some(Some(d)) : d \in dates}
BookingUpdates(check_ins, check_outs, statuses) ==
    [check_in_date : check_ins, check_out_date : check_outs,
     status : {None} \cup {Some(st) : st \in statuses}]

(* --------------------- endpoints/bookings.py -------------------------- *)

get_bookings(user_id, guest_id, property_id) ==
    /\ Respond("get_bookings", user_id, None, Success,
               get_bookings_for_user(users[user_id], guest_id, property_id))
    /\ UNCHANGED db
    /\ UNCHANGED <<requests, gate>>

get_booking(user_id, booking_id) ==
    /\ IF get_booking_with_validation(booking_id, users[user_id]) = None
       THEN Respond("get_booking", user_id, Some(booking_id), NotFoundError("Booking", booking_id), {})
       ELSE Respond("get_booking", user_id, Some(booking_id), Success, {booking_id})
    /\ UNCHANGED db
    /\ UNCHANGED <<requests, gate>>

create_booking(user_id, booking_data) ==
    /\ \E response \in create_booking_responses(booking_data, users[user_id]) :
          IF response # Success THEN
              /\ Respond("create_booking", user_id, None, response, {})
              /\ UNCHANGED bookings
          ELSE
              LET id == new_id(bookings, MaxBookings)
              IN  /\ Cardinality(DOMAIN bookings) < MaxBookings
                  /\ bookings' = bookings @@ (id :> Booking(booking_data))
                  /\ Respond("create_booking", user_id, None, Success, {id})
    /\ UNCHANGED <<tenants, users, properties, rooms, guests>>
    /\ UNCHANGED <<requests, gate>>

update_booking(user_id, booking_id, update_data) ==
    /\ \E response \in update_booking_responses(booking_id, update_data, users[user_id]) :
          IF response # Success THEN
              /\ Respond("update_booking", user_id, Some(booking_id), response, {})
              /\ UNCHANGED bookings
          ELSE
              /\ bookings' = [bookings EXCEPT ![booking_id] = setattr_all(@, update_data)]
              /\ Respond("update_booking", user_id, Some(booking_id), Success, {booking_id})
    /\ UNCHANGED <<tenants, users, properties, rooms, guests>>
    /\ UNCHANGED <<requests, gate>>

delete_booking(user_id, booking_id) ==
    /\ IF get_booking_with_validation(booking_id, users[user_id]) = None THEN
           /\ Respond("delete_booking", user_id, Some(booking_id), NotFoundError("Booking", booking_id), {})
           /\ UNCHANGED bookings
       ELSE
           /\ bookings' = Remove(bookings, booking_id)
           /\ Respond("delete_booking", user_id, Some(booking_id), Success, {})
    /\ UNCHANGED <<tenants, users, properties, rooms, guests>>
    /\ UNCHANGED <<requests, gate>>

(* ------------- booking writes of one tenant, one at a time ------------ *)

\* Tenant 1 holds two properties and a guest (create_property, create_guest
\* by its admin); its admin then writes bookings, one request at a time.
SeedProperties ==
    (1 :> [tenant_id |-> Some(1), name |-> "a"]) @@
    (2 :> [tenant_id |-> Some(1), name |-> "b"])
SeedGuests == (1 :> [tenant_id |-> Some(1), first_name |-> "a"])
BookingCallers == {2}

Init ==
    /\ tenants = SeedTenants
    /\ users = SeedUsers
    /\ properties = SeedProperties
    /\ rooms = <<>>
    /\ guests = SeedGuests
    /\ bookings = <<>>
    /\ last = Idle
    /\ requests = <<>>
    /\ gate = None

Next ==
    \/ \E user_id \in BookingCallers,
          data \in BookingCreates(DOMAIN SeedProperties, DOMAIN SeedGuests, Dates, Dates, BookingStatus) :
          create_booking(user_id, data)
    \/ \E user_id \in BookingCallers, id \in BookingIds,
          data \in BookingUpdates(DateFields(Dates), DateFields(Dates), BookingStatus) :
          update_booking(user_id, id, data)
    \/ \E user_id \in BookingCallers, id \in BookingIds :
          delete_booking(user_id, id)

Spec == Init /\ [][Next]_vars

(* ------------- booking writes of one tenant, interleaved -------------- *)

\* Each request runs in its own session and the service takes no lock: a
\* request first runs its queries and checks (lines 78-111 of create_booking,
\* 123-150 of update_booking) and, if none raised, later writes and commits
\* (lines 113-117, 152-156).  Other requests may run between the two steps.
\* requests holds the requests that have checked and not yet committed.
\* Every update here carries a date, so every update runs the overlap check.
RequestSlots == 1..MaxRequests
ConcCreates == BookingCreates({1}, DOMAIN SeedGuests, {1, 2}, {2, 3}, {"pending"})
ConcUpdates == {u \in BookingUpdates({None, Some(Some(1))}, {None, Some(Some(3))}, {}) :
                  update_has_dates(u)}

create_booking_check(slot, user_id, booking_data) ==
    /\ slot \notin DOMAIN requests
    /\ \E response \in create_booking_responses(booking_data, users[user_id]) :
          IF response # Success THEN
              /\ Respond("create_booking", user_id, None, response, {})
              /\ UNCHANGED requests
          ELSE
              /\ requests' = requests @@
                     (slot :> [op |-> "create_booking", user_id |-> user_id,
                               booking_id |-> None, data |-> Some(booking_data),
                               update |-> None])
              /\ UNCHANGED last
    /\ UNCHANGED <<db, gate>>

create_booking_commit(slot) ==
    /\ slot \in DOMAIN requests
    /\ requests[slot].op = "create_booking"
    /\ Cardinality(DOMAIN bookings) < MaxBookings
    /\ LET id == new_id(bookings, MaxBookings)
       IN  /\ bookings' = bookings @@ (id :> Booking(requests[slot].data[1]))
           /\ Respond("create_booking", requests[slot].user_id, None, Success, {id})
    /\ requests' = Remove(requests, slot)
    /\ UNCHANGED <<tenants, users, properties, rooms, guests, gate>>

update_booking_check(slot, user_id, booking_id, update_data) ==
    /\ slot \notin DOMAIN requests
    /\ \E response \in update_booking_responses(booking_id, update_data, users[user_id]) :
          IF response # Success THEN
              /\ Respond("update_booking", user_id, Some(booking_id), response, {})
              /\ UNCHANGED requests
          ELSE
              /\ requests' = requests @@
                     (slot :> [op |-> "update_booking", user_id |-> user_id,
                               booking_id |-> Some(booking_id), data |-> None,
                               update |-> Some(update_data)])
              /\ UNCHANGED last
    /\ UNCHANGED <<db, gate>>

update_booking_commit(slot) ==
    /\ slot \in DOMAIN requests
    /\ requests[slot].op = "update_booking"
    /\ LET booking_id == requests[slot].booking_id[1]
       IN  /\ bookings' = [bookings EXCEPT
                              ![booking_id] = setattr_all(@, requests[slot].update[1])]
           /\ Respond("update_booking", requests[slot].user_id, Some(booking_id),
                      Success, {booking_id})
    /\ requests' = Remove(requests, slot)
    /\ UNCHANGED <<tenants, users, properties, rooms, guests, gate>>

NextConc ==
    \/ \E slot \in RequestSlots, user_id \in BookingCallers, data \in ConcCreates :
          create_booking_check(slot, user_id, data)
    \/ \E slot \in RequestSlots : create_booking_commit(slot)
    \/ \E slot \in RequestSlots, user_id \in BookingCallers, id \in BookingIds,
          data \in ConcUpdates :
          update_booking_check(slot, user_id, id, data)
    \/ \E slot \in RequestSlots : update_booking_commit(slot)

SpecConc == Init /\ [][NextConc]_vars

(* ------------- tenant isolation: every caller, every table ------------ *)

\* The callers of both tenants, the super admin and the user without a tenant
\* create, read, change and delete properties, guests and bookings, one
\* request at a time.  One booking at a time is held, asked for day 1 to
\* day 2; an update cancels it, sends a null check-in date, or both.
AccessCreates == BookingCreates(PropertyIds, GuestIds, {1}, {2}, {"pending"})
AccessUpdates == BookingUpdates({None, Some(None)}, {None}, {"cancelled"})
AccessFilters == {None, Some(1)}

InitAccess ==
    /\ tenants = SeedTenants
    /\ users = SeedUsers
    /\ properties = <<>>
    /\ rooms = <<>>
    /\ guests = <<>>
    /\ bookings = <<>>
    /\ last = Idle
    /\ requests = <<>>
    /\ gate = None

NextAccess ==
    \/ \E user_id \in DOMAIN users : get_properties(user_id)
    \/ \E user_id \in DOMAIN users, id \in PropertyIds : get_property(user_id, id)
    \/ \E user_id \in DOMAIN users, data \in PropertyPayloads : create_property(user_id, data)
    \/ \E user_id \in DOMAIN users, id \in PropertyIds, data \in PropertyPayloads :
          update_property(user_id, id, data)
    \/ \E user_id \in DOMAIN users, id \in PropertyIds : delete_property(user_id, id)
    \/ \E user_id \in DOMAIN users : get_guests(user_id)
    \/ \E user_id \in DOMAIN users, id \in GuestIds : get_guest(user_id, id)
    \/ \E user_id \in DOMAIN users, data \in GuestPayloads : create_guest(user_id, data)
    \/ \E user_id \in DOMAIN users, id \in GuestIds, data \in GuestUpdates :
          update_guest(user_id, id, data)
    \/ \E user_id \in DOMAIN users, id \in GuestIds : delete_guest(user_id, id)
    \/ \E user_id \in DOMAIN users, g \in AccessFilters, p \in AccessFilters :
          get_bookings(user_id, g, p)
    \/ \E user_id \in DOMAIN users, id \in BookingIds : get_booking(user_id, id)
    \/ \E user_id \in DOMAIN users, data \in AccessCreates :
          create_booking(user_id, data) /\ Cardinality(DOMAIN bookings') <= MaxAccessBookings
    \/ \E user_id \in DOMAIN users, id \in BookingIds, data \in AccessUpdates :
          update_booking(user_id, id, data)
    \/ \E user_id \in DOMAIN users, id \in BookingIds : delete_booking(user_id, id)

SpecAccess == InitAccess /\ [][NextAccess]_vars

(* ------------------ the access gate on its own inputs ----------------- *)

\* Any user (a role and an Optional tenant uuid) asks for any Optional
\* tenant id string: the text of a uuid, or the text str() makes of None.
GateUsers == [role : UserRole, tenant_id : {None} \cup {Some(n) : n \in 1..MaxTenantId}]
GateTenantIds == {None, Some("None")} \cup {Some(ToString(n)) : n \in 1..MaxTenantId}

InitGate ==
    /\ tenants = SeedTenants
    /\ users = SeedUsers
    /\ properties = <<>>
    /\ rooms = <<>>
    /\ guests = <<>>
    /\ bookings = <<>>
    /\ last = Idle
    /\ requests = <<>>
    /\ gate = None

check_access(user, tenant_id) ==
    /\ gate' = Some([user |-> user, tenant_id |-> tenant_id,
                     result |-> validate_tenant_access(user, tenant_id)])
    /\ UNCHANGED <<db, last, requests>>

NextGate == \E user \in GateUsers, tenant_id \in GateTenantIds : check_access(user, tenant_id)

SpecGate == InitGate /\ [][NextGate]_vars

(* ----------------------- endpoints/rooms.py --------------------------- *)

\* database_exception_handler: the answer to an SQLAlchemyError, such as the
\* IntegrityError of a foreign key that names no row
database_exception_handler ==
    [status |-> 500, code |-> "DATABASE_ERROR", detail |-> <<"A database error occurred">>]

\* room: [property_id, name, status], the status column may hold null
RoomStatus == {"available", "occupied", "cleaning", "maintenance", "out_of_order"}
RoomIds == 1..MaxRooms

\* the first query of calculate_room_status
active_booking(room, today) ==
    {b \in DOMAIN bookings :
        /\ bookings[b].property_id = room.property_id
        /\ bookings[b].status \in {"confirmed", "checked_in"}
        /\ bookings[b].check_in_date <= today
        /\ bookings[b].check_out_date > today}

checkout_today_AnyStatus(room, today) ==
    {b \in DOMAIN bookings :
        /\ bookings[b].property_id = room.property_id
        /\ bookings[b].check_out_date = today}

\* the second query of calculate_room_status
checkout_today(room, today) ==
    {b \in DOMAIN bookings :
        /\ bookings[b].property_id = room.property_id
        /\ bookings[b].status \in {"confirmed", "checked_in"}
        /\ bookings[b].check_out_date = today}

calculate_room_status(room, today) ==
    IF active_booking(room, today) # {} THEN "occupied"
    ELSE IF checkout_today(room, today) # {} THEN "cleaning"
    ELSE IF room.status # None /\ room.status[1] # "" THEN room.status[1]
    ELSE "available"

\* RoomWithStatus: the room and its calculated status
RoomWithStatus(room_id, today) ==
    [id |-> room_id, property_id |-> rooms[room_id].property_id,
     name |-> rooms[room_id].name, status |-> calculate_room_status(rooms[room_id], today)]

room_booking_count(room_id) ==
    Cardinality({b \in DOMAIN bookings : bookings[b].room_id = Some(room_id)})

\* request bodies: RoomCreate, and RoomUpdate with exclude_unset
RoomCreates(property_ids, names, statuses) ==
    [property_id : property_ids, name : names, status : statuses]
RoomUpdates(names, statuses) == [name : names, status : statuses]

get_rooms(user_id, property_id, today) ==
    /\ Respond("get_rooms", user_id, None, Success,
               {RoomWithStatus(r, today) :
                   r \in {r \in DOMAIN rooms :
                            property_id # None => rooms[r].property_id = property_id[1]}})
    /\ UNCHANGED <<db, requests, gate>>

get_room(user_id, room_id, today) ==
    /\ IF room_id \notin DOMAIN rooms
       THEN Respond("get_room", user_id, Some(room_id), NotFoundError("Room", room_id), {})
       ELSE Respond("get_room", user_id, Some(room_id), Success, {RoomWithStatus(room_id, today)})
    /\ UNCHANGED <<db, requests, gate>>

create_room(user_id, room_create) ==
    /\ IF room_create.property_id \notin DOMAIN properties THEN
           /\ Respond("create_room", user_id, None, database_exception_handler, {})
           /\ UNCHANGED rooms
       ELSE
           LET id == new_id(rooms, MaxRooms)
           IN  /\ Cardinality(DOMAIN rooms) < MaxRooms
               /\ rooms' = rooms @@
                      (id :> [property_id |-> room_create.property_id,
                              name |-> room_create.name,
                              status |-> Some(room_create.status)])
               /\ Respond("create_room", user_id, None, Success, {id})
    /\ UNCHANGED <<tenants, users, properties, guests, bookings, requests, gate>>

update_room(user_id, room_id, room_update) ==
    /\ IF room_id \notin DOMAIN rooms THEN
           /\ Respond("update_room", user_id, Some(room_id), NotFoundError("Room", room_id), {})
           /\ UNCHANGED rooms
       ELSE
           /\ rooms' = [rooms EXCEPT
                  ![room_id].name = IF room_update.name # None THEN room_update.name[1] ELSE @,
                  ![room_id].status = IF room_update.status # None
                                      THEN room_update.status[1] ELSE @]
           /\ Respond("update_room", user_id, Some(room_id), Success, {room_id})
    /\ UNCHANGED <<tenants, users, properties, guests, bookings, requests, gate>>

delete_room(user_id, room_id) ==
    /\ LET response ==
               IF room_id \notin DOMAIN rooms THEN NotFoundError("Room", room_id)
               ELSE IF room_booking_count(room_id) > 0
               THEN DependencyConflictError(<<"room", rooms[room_id].name>>,
                                            <<room_booking_count(room_id), "booking(s)">>)
               ELSE Success
       IN  /\ Respond("delete_room", user_id, Some(room_id), response, {})
           /\ rooms' = IF response = Success THEN Remove(rooms, room_id) ELSE rooms
    /\ UNCHANGED <<tenants, users, properties, guests, bookings, requests, gate>>

(* ------------------ rooms: every caller, two tenants ------------------ *)

\* Each tenant holds one property; every user asks for rooms.  No booking
\* is stored, so a room's calculated status is its stored one.
TenantProperties ==
    (1 :> [tenant_id |-> Some(1), name |-> "a"]) @@
    (2 :> [tenant_id |-> Some(2), name |-> "b"])

InitRooms ==
    /\ tenants = SeedTenants
    /\ users = SeedUsers
    /\ properties = TenantProperties
    /\ rooms = <<>>
    /\ guests = <<>>
    /\ bookings = <<>>
    /\ last = Idle
    /\ requests = <<>>
    /\ gate = None

NextRooms ==
    \/ \E user_id \in DOMAIN users, p \in {None} \cup {Some(i) : i \in PropertyIds} :
          get_rooms(user_id, p, 1)
    \/ \E user_id \in DOMAIN users, id \in RoomIds : get_room(user_id, id, 1)
    \/ \E user_id \in DOMAIN users, data \in RoomCreates(PropertyIds, {"a"}, {"available"}) :
          create_room(user_id, data)
    \/ \E user_id \in DOMAIN users, id \in RoomIds,
          data \in RoomUpdates({None, Some("b")}, {None, Some(Some("maintenance"))}) :
          update_room(user_id, id, data)
    \/ \E user_id \in DOMAIN users, id \in RoomIds : delete_room(user_id, id)

SpecRooms == InitRooms /\ [][NextRooms]_vars

(* ----------------------- reports_service.py --------------------------- *)

\* str(date) and datetime.strptime(s, "%Y-%m-%d").date(): a date and its text
DateText(d) == ToString(d)
IsDateText(s) == \E d \in Dates : DateText(d) = s
strptime(s) == CHOOSE d \in Dates : DateText(d) = s
\* timedelta(days=30)
ReportDays == 30

RECURSIVE sum_amounts(_)
\* sum(b.total_amount or 0 for b in bookings)
sum_amounts(ids) ==
    IF ids = {} THEN 0
    ELSE LET b == CHOOSE b \in ids : TRUE
         IN  (IF bookings[b].total_amount = None THEN 0 ELSE bookings[b].total_amount[1])
             + sum_amounts(ids \ {b})

\* base_query.all(): lines 100-110 of get_financial_report
report_bookings(user, start_dt, end_dt) ==
    LET tenant_id == get_user_tenant_id(user)
    IN  {b \in DOMAIN bookings :
            /\ bookings[b].status = "checked_out"
            /\ bookings[b].check_out_date >= start_dt
            /\ bookings[b].check_out_date <= end_dt
            /\ (user.role # SUPER_ADMIN /\ tenant_id # None)
                 => /\ bookings[b].property_id \in DOMAIN properties
                    /\ properties[bookings[b].property_id].tenant_id
                          = Some(uuid_of(tenant_id[1]))}

\* FinancialReport of the columns held here: the totals, the revenue of each
\* property and of each day
FinancialReport(user, start_dt, end_dt) ==
    LET found == report_bookings(user, start_dt, end_dt)
    IN  [start_date |-> start_dt,
         end_date |-> end_dt,
         total_revenue |-> sum_amounts(found),
         properties |->
             {[property_id |-> p,
               property_name |-> properties[p].name,
               total_revenue |-> sum_amounts({b \in found : bookings[b].property_id = p}),
               bookings_count |-> Cardinality({b \in found : bookings[b].property_id = p})] :
                 p \in {bookings[b].property_id : b \in found}},
         daily_revenue |->
             {[date |-> DateText(d),
               revenue |-> sum_amounts({b \in found : bookings[b].check_out_date = d})] :
                 d \in {bookings[b].check_out_date : b \in found}}]

\* GET /financial-report; now is datetime.now().date()
get_financial_report(user_id, start_date, end_date, now) ==
    /\ IF \/ end_date # None /\ ~IsDateText(end_date[1])
          \/ start_date # None /\ ~IsDateText(start_date[1])
       THEN \* strptime raises ValueError
            Respond("get_financial_report", user_id, None, general_exception_handler, {})
       ELSE LET end_dt == IF end_date = None THEN now ELSE strptime(end_date[1])
                start_dt == IF start_date = None THEN end_dt - ReportDays
                            ELSE strptime(start_date[1])
            IN  Respond("get_financial_report", user_id, None, Success,
                        {FinancialReport(users[user_id], start_dt, end_dt)})
    /\ UNCHANGED <<db, requests, gate>>

(* ------------- financial report: every caller, two tenants ------------ *)

\* Each tenant holds a property and a guest and the bookings are any two
\* bookings the tenants' admins have stored, each with or without an amount;
\* every user asks for the report.
TenantGuests ==
    (1 :> [tenant_id |-> Some(1), first_name |-> "a"]) @@
    (2 :> [tenant_id |-> Some(2), first_name |-> "b"])
ReportBooking(p, check_out, status, amount) ==
    [property_id |-> p, room_id |-> None, guest_id |-> p, check_in_date |-> 1,
     check_out_date |-> check_out, status |-> status, total_amount |-> amount]
ReportBookings ==
    {ReportBooking(p, check_out, status, amount) :
        p \in {1, 2}, check_out \in {2, 3}, status \in {"checked_out", "confirmed"},
        amount \in {None, Some(5)}}

InitReports ==
    /\ tenants = SeedTenants
    /\ users = SeedUsers
    /\ properties = TenantProperties
    /\ rooms = <<>>
    /\ guests = TenantGuests
    /\ bookings \in [1..MaxBookings -> ReportBookings]
    /\ last = Idle
    /\ requests = <<>>
    /\ gate = None

NextReports ==
    \E user_id \in DOMAIN users, start_date \in {None, Some("3"), Some("soon")},
       end_date \in {None, Some("3")}, now \in {2, 3} :
        get_financial_report(user_id, start_date, end_date, now)

SpecReports == InitReports /\ [][NextReports]_vars

(* ---------------- deletes and the rows that block them ---------------- *)

\* Tenant 1 holds two properties and a guest; its admin stores and deletes
\* rooms and bookings (for day 1 to day 2, of any of three statuses, with or
\* without a room) and deletes the guest and the properties.
DeleteCreates ==
    BookingCreates(PropertyIds, GuestIds, {1}, {2}, {"pending", "checked_out", "cancelled"})

NextDelete ==
    \/ \E user_id \in BookingCallers, data \in DeleteCreates : create_booking(user_id, data)
    \/ \E user_id \in BookingCallers, id \in BookingIds : delete_booking(user_id, id)
    \/ \E user_id \in BookingCallers, data \in RoomCreates(PropertyIds, {"a"}, {"available"}) :
          create_room(user_id, data)
    \/ \E user_id \in BookingCallers, id \in RoomIds : delete_room(user_id, id)
    \/ \E user_id \in BookingCallers, id \in GuestIds : delete_guest(user_id, id)
    \/ \E user_id \in BookingCallers, id \in PropertyIds : delete_property(user_id, id)
    \/ \E user_id \in BookingCallers : create_property(user_id, [name |-> "a", tenant_id |-> None])
    \/ \E user_id \in BookingCallers : create_guest(user_id, [first_name |-> "a", tenant_id |-> None])

SpecDelete == Init /\ [][NextDelete]_vars

(* ------------------ tenant.py: the request's tenant ------------------- *)

\* Python's `needle in s` and `s.split(sep)[0]` on strings
Contains(needle, s) ==
    \E i \in 1..(Len(s) - Len(needle) + 1) : SubSeq(s, i, i + Len(needle) - 1) = needle
split_first(s, sep) ==
    IF ~Contains(sep, s) THEN s
    ELSE LET i == CHOOSE i \in 1..(Len(s) - Len(sep) + 1) :
                      /\ SubSeq(s, i, i + Len(sep) - 1) = sep
                      /\ \A j \in 1..(i - 1) : SubSeq(s, j, j + Len(sep) - 1) # sep
         IN  SubSeq(s, 1, i - 1)

\* request.headers.get("host", "")
header_host(headers) == IF headers.host = None THEN "" ELSE headers.host[1]

\* lines 50-66: the subdomain read from the host header when the
\* x-tenant-subdomain header gives none; None where the code returns or
\* leaves the variable unset
host_subdomain_AnyLabel(host) ==
    IF Contains(".", host) THEN Some(split_first(host, ".")) ELSE None

host_subdomain(host) ==
    IF host \in {"localhost", "localhost:3000", "localhost:80"} THEN None
    ELSE IF Contains(".localhost", host) THEN Some(split_first(host, ".localhost"))
    ELSE IF Contains(".darmanager.net", host) THEN Some(split_first(host, ".darmanager.net"))
    ELSE None

request_subdomain(headers) ==
    IF headers.x_tenant_subdomain # None /\ headers.x_tenant_subdomain[1] # ""
    THEN headers.x_tenant_subdomain
    ELSE host_subdomain(header_host(headers))

\* lines 68-77: the rows .first() may return
get_tenant_from_subdomain(headers) ==
    LET subdomain == request_subdomain(headers)
    IN  IF subdomain = None \/ subdomain = Some("") THEN {}
        ELSE {t \in DOMAIN tenants : /\ tenants[t].subdomain = subdomain[1]
                                     /\ tenants[t].is_active = TRUE}

(* ---------------------- endpoints/tenants.py -------------------------- *)

\* lines 127-130 of delete_tenant: the four COUNT(*) queries
tenant_user_count(tenant_id) ==
    Cardinality({u \in DOMAIN users : users[u].tenant_id = Some(tenant_id)})
tenant_property_count(tenant_id) ==
    Cardinality({p \in DOMAIN properties : properties[p].tenant_id = Some(tenant_id)})
tenant_guest_count(tenant_id) ==
    Cardinality({g \in DOMAIN guests : guests[g].tenant_id = Some(tenant_id)})
\* bookings b JOIN properties p ON b.property_id = p.id WHERE p.tenant_id = :tenant_id
tenant_booking_count_Unjoined(tenant_id) ==
    Cardinality({b \in DOMAIN bookings : bookings[b].property_id \in DOMAIN properties})

tenant_booking_count(tenant_id) ==
    Cardinality({b \in DOMAIN bookings : /\ bookings[b].property_id \in DOMAIN properties
                                         /\ properties[bookings[b].property_id].tenant_id = Some(tenant_id)})

\* What DELETE FROM tenants WHERE id = :tenant_id (line 133) does to the rows
\* that reference the tenant is decided by the foreign keys of the database
\* schema, which is not among the repository's files here: the rows a table
\* keeps are those the cascade described for tenant deletion does not own.
Keep(table, ids) == [i \in ids |-> table[i]]
cascade_users(tenant_id) ==
    Keep(users, {u \in DOMAIN users : users[u].tenant_id # Some(tenant_id)})
cascade_properties(tenant_id) ==
    Keep(properties, {p \in DOMAIN properties : properties[p].tenant_id # Some(tenant_id)})
cascade_guests(tenant_id) ==
    Keep(guests, {g \in DOMAIN guests : guests[g].tenant_id # Some(tenant_id)})
cascade_bookings(tenant_id) ==
    Keep(bookings, {b \in DOMAIN bookings :
                        bookings[b].property_id \in DOMAIN cascade_properties(tenant_id)})

\* lines 119-144; the caller passed require_super_admin
delete_tenant(user_id, tenant_id) ==
    /\ users[user_id].role = SUPER_ADMIN
    /\ IF tenant_id \notin DOMAIN tenants
       THEN /\ Respond("delete_tenant", user_id, Some(tenant_id),
                       NotFoundError("Tenant", tenant_id), {})
            /\ UNCHANGED db
       ELSE /\ Respond("delete_tenant", user_id, Some(tenant_id), Success,
                       [users |-> tenant_user_count(tenant_id),
                        properties |-> tenant_property_count(tenant_id),
                        guests |-> tenant_guest_count(tenant_id),
                        bookings |-> tenant_booking_count(tenant_id)])
            /\ tenants' = Remove(tenants, tenant_id)
            /\ users' = cascade_users(tenant_id)
            /\ properties' = cascade_properties(tenant_id)
            /\ guests' = cascade_guests(tenant_id)
            /\ bookings' = cascade_bookings(tenant_id)
            /\ UNCHANGED rooms
    /\ UNCHANGED <<requests, gate>>

\* the queries of create_tenant (53, 59) and update_tenant (88-91, 97-100):
\* the tenants, other than those excepted, with the subdomain or the domain
existing_tenant(subdomain, except) ==
    {t \in DOMAIN tenants \ except : tenants[t].subdomain = subdomain}
existing_domain_Unset(domain, except) ==
    {t \in DOMAIN tenants \ except : tenants[t].domain = None}

existing_domain(domain, except) ==
    {t \in DOMAIN tenants \ except : tenants[t].domain = Some(domain)}

\* a value Python takes as true in `if tenant_create.domain:`
truthy(text) == text # None /\ text[1] # ""

\* lines 52-61 of create_tenant
create_tenant_response(tenant_create) ==
    IF existing_tenant(tenant_create.subdomain, {}) # {}
    THEN ConflictError(<<"Subdomain already exists">>)
    ELSE IF truthy(tenant_create.domain) /\ existing_domain(tenant_create.domain[1], {}) # {}
    THEN ConflictError(<<"Domain already exists">>)
    ELSE Success

\* lines 46-68; the caller passed require_super_admin
create_tenant(user_id, tenant_create) ==
    /\ users[user_id].role = SUPER_ADMIN
    /\ LET response == create_tenant_response(tenant_create)
           id == new_id(tenants, MaxTenants)
       IN  IF response = Success
           THEN /\ Cardinality(DOMAIN tenants) < MaxTenants
                /\ Respond("create_tenant", user_id, Some([body |-> tenant_create]),
                           response, {id})
                /\ tenants' = tenants @@ (id :> tenant_create)
           ELSE /\ Respond("create_tenant", user_id, Some([body |-> tenant_create]),
                           response, {})
                /\ UNCHANGED tenants
    /\ UNCHANGED <<users, properties, rooms, guests, bookings, requests, gate>>

\* TenantUpdate declares name, domain, contact_email, contact_phone and
\* is_active: dict(exclude_unset=True) holds the declared fields the body set,
\* and never a subdomain
TenantUpdate_dict(tenant_update) ==
    [subdomain |-> None, domain |-> tenant_update.domain, is_active |-> tenant_update.is_active]

\* lines 84-102 of update_tenant; a field of update_data is None when the
\* body did not set it and Some(value) when it did
update_tenant_response(tenant_id, update_data) ==
    IF tenant_id \notin DOMAIN tenants THEN NotFoundError("Tenant", tenant_id)
    ELSE IF update_data.subdomain # None
            /\ existing_tenant(update_data.subdomain[1], {tenant_id}) # {}
    THEN ConflictError(<<"Subdomain already exists">>)
    ELSE IF update_data.domain # None /\ truthy(update_data.domain[1])
            /\ existing_domain(update_data.domain[1][1], {tenant_id}) # {}
    THEN ConflictError(<<"Domain already exists">>)
    ELSE Success

\* lines 104-105: setattr for every field of update_data
setattr_tenant(tenant, update_data) ==
    [subdomain |-> IF update_data.subdomain # None THEN update_data.subdomain[1]
                   ELSE tenant.subdomain,
     domain |-> IF update_data.domain # None THEN update_data.domain[1] ELSE tenant.domain,
     is_active |-> IF update_data.is_active # None THEN update_data.is_active[1]
                   ELSE tenant.is_active]

\* lines 72-109; the caller passed require_super_admin
update_tenant(user_id, tenant_id, tenant_update) ==
    /\ users[user_id].role = SUPER_ADMIN
    /\ LET update_data == TenantUpdate_dict(tenant_update)
           response == update_tenant_response(tenant_id, update_data)
       IN  /\ Respond("update_tenant", user_id,
                      Some([id |-> tenant_id, body |-> tenant_update]), response, {})
           /\ tenants' = IF response = Success
                         THEN [tenants EXCEPT ![tenant_id] = setattr_tenant(@, update_data)]
                         ELSE tenants
    /\ UNCHANGED <<users, properties, rooms, guests, bookings, requests, gate>>

\* lines 185-197: GET /tenant/current
get_current_tenant_info(headers) ==
    /\ \/ /\ get_tenant_from_subdomain(headers) = {}
          /\ last' = [op |-> "get_current_tenant_info", caller |-> None,
                      target |-> Some(headers),
                      response |-> NotFoundError("Tenant", "current"), result |-> {}]
       \/ \E tenant \in get_tenant_from_subdomain(headers) :
             last' = [op |-> "get_current_tenant_info", caller |-> None,
                      target |-> Some(headers), response |-> Success, result |-> {tenant}]
    /\ UNCHANGED <<db, requests, gate>>

(* ------------------- resolving the request's tenant ------------------- *)

\* Tenants alpha and beta, each active or not; requests with or without the
\* x-tenant-subdomain header and with the hosts of development and production.
ResolveTenants ==
    {(1 :> [subdomain |-> "alpha", is_active |-> a]) @@
     (2 :> [subdomain |-> "beta", is_active |-> b]) : a \in BOOLEAN, b \in BOOLEAN}
Hints == {None, Some(""), Some("alpha"), Some("beta"), Some("gamma")}
Hosts == {None, Some("localhost"), Some("localhost:3000"), Some("localhost:80"),
          Some("localhost:8000"), Some("darmanager.net"), Some("alpha.localhost"),
          Some("beta.localhost:3000"), Some("alpha.darmanager.net"),
          Some("beta.darmanager.net"), Some("gamma.darmanager.net"),
          Some("alpha.example.com")}
Headers == [x_tenant_subdomain : Hints, host : Hosts]

InitResolve ==
    /\ tenants \in ResolveTenants
    /\ users = SeedUsers
    /\ properties = <<>>
    /\ rooms = <<>>
    /\ guests = <<>>
    /\ bookings = <<>>
    /\ last = Idle
    /\ requests = <<>>
    /\ gate = None

NextResolve == \E headers \in Headers : get_current_tenant_info(headers)

SpecResolve == InitResolve /\ [][NextResolve]_vars

(* -------------------- deleting a tenant with its rows ----------------- *)

\* Each tenant of the seed has its admin; a further user, two properties and
\* two guests belong to either tenant, and each booking joins a property and a
\* guest of one tenant (create_booking admits no other pair for a tenant's
\* user).
CascadeUsers == {SeedUsers @@ (5 :> [role |-> "staff", tenant_id |-> t]) :
                     t \in {Some(1), Some(2)}}
CascadeProperties == [1..2 -> [tenant_id : {Some(1), Some(2)}, name : {"a"}]]
CascadeGuests == [1..2 -> [tenant_id : {Some(1), Some(2)}, first_name : {"a"}]]
CascadeBooking(b, p, g, status) ==
    [property_id |-> p, room_id |-> None, guest_id |-> g,
     check_in_date |-> b, check_out_date |-> b + 1, status |-> status]
CascadeBookings ==
    {f \in [1..MaxBookings -> [p : 1..2, g : 1..2, status : {"confirmed", "cancelled"}]] : TRUE}

InitCascade ==
    /\ tenants = SeedTenants
    /\ users \in CascadeUsers
    /\ properties \in CascadeProperties
    /\ rooms = <<>>
    /\ guests \in CascadeGuests
    /\ \E f \in CascadeBookings :
          /\ \A b \in DOMAIN f : properties[f[b].p].tenant_id = guests[f[b].g].tenant_id
          /\ bookings = [b \in DOMAIN f |-> CascadeBooking(b, f[b].p, f[b].g, f[b].status)]
    /\ last = Idle
    /\ requests = <<>>
    /\ gate = None

NextCascade ==
    \E user_id \in DOMAIN users, tenant_id \in 1..3 : delete_tenant(user_id, tenant_id)

SpecCascade == InitCascade /\ [][NextCascade]_vars

(* ------------------- room status on a given day ----------------------- *)

\* One room of property 1, with or without a stored status, and bookings of
\* either property, of every status and every interval; the room is read on
\* each day.
StatusRooms == {(1 :> [property_id |-> 1, name |-> "a", status |-> s]) :
                    s \in {None, Some("available"), Some("maintenance")}}
StatusBookings ==
    {[property_id |-> p, room_id |-> None, guest_id |-> p,
      check_in_date |-> i, check_out_date |-> o, status |-> s] :
        p \in 1..2, s \in BookingStatus,
        i \in Dates, o \in Dates} 

InitStatus ==
    /\ tenants = SeedTenants
    /\ users = SeedUsers
    /\ properties = TenantProperties
    /\ rooms \in StatusRooms
    /\ guests = TenantGuests
    /\ bookings \in [1..MaxBookings -> {b \in StatusBookings : b.check_in_date < b.check_out_date}]
    /\ last = Idle
    /\ requests = <<>>
    /\ gate = None

NextStatus ==
    \/ \E today \in Dates : get_room(2, 1, today)
    \/ \E today \in Dates : get_rooms(2, None, today)

SpecStatus == InitStatus /\ [][NextStatus]_vars

(* ------------------- creating and updating tenants ------------------- *)

\* The super admin creates, updates and deletes tenants, starting from none;
\* bodies name one of two subdomains and no domain, an empty one or one of two;
\* an update body may carry a subdomain and may set the domain, also to null.
TenantDomains == {None, Some(""), Some("a.com"), Some("b.com")}
TenantCreates == [subdomain : {"alpha", "beta"}, domain : TenantDomains, is_active : {TRUE}]
TenantUpdates ==
    [subdomain : {None, Some("alpha")},
     domain : {None} \cup {Some(d) : d \in TenantDomains},
     is_active : {None, Some(FALSE)}]

InitTenants ==
    /\ tenants = <<>>
    /\ users = SeedUsers
    /\ properties = <<>>
    /\ rooms = <<>>
    /\ guests = <<>>
    /\ bookings = <<>>
    /\ last = Idle
    /\ requests = <<>>
    /\ gate = None

NextTenants ==
    \/ \E tenant_create \in TenantCreates : create_tenant(1, tenant_create)
    \/ \E tenant_id \in 1..MaxTenants, tenant_update \in TenantUpdates :
          update_tenant(1, tenant_id, tenant_update)
    \/ \E tenant_id \in 1..MaxTenants : delete_tenant(1, tenant_id)

SpecTenants == InitTenants /\ [][NextTenants]_vars

(* ----------------------- endpoints/auth.py ---------------------------- *)

UnauthorizedError(detail) == AppException(401, detail, "UNAUTHORIZED")

\* lines 33-60 of login: the exception the tenant validation raises for an
\* authenticated user, None when it raises none
login_rejection(user, current_tenant) ==
    IF current_tenant # None
    THEN IF user.role = SUPER_ADMIN THEN None
         ELSE IF user.tenant_id = None \/ str(user.tenant_id) # str(current_tenant)
         THEN Some(HTTPException(403, <<"You cannot access", tenants[current_tenant[1]].name,
                                        "from this account. Please use your organization's subdomain.">>))
         ELSE None
    ELSE IF user.role = SUPER_ADMIN THEN None
         ELSE IF user.tenant_id # None /\ user.tenant_id[1] \in DOMAIN tenants
         THEN Some(HTTPException(400, <<"Please access your account at: https://",
                                        tenants[user.tenant_id[1]].subdomain, ".darmanager.com">>))
         ELSE None

\* lines 63-70: the tokens carry the user's email, for which the id stands
Token(user_id) == [sub |-> user_id, token_type |-> "bearer"]

\* lines 19-70; authenticated says whether SecurityService.authenticate_user
\* found the user for the email and password of the body
login(headers, user_id, authenticated) ==
    /\ \E current_tenant \in IF get_tenant_from_subdomain(headers) = {} THEN {None}
                              ELSE {Some(t) : t \in get_tenant_from_subdomain(headers)} :
          LET rejection == login_rejection(users[user_id], current_tenant)
              response == IF ~authenticated
                          THEN UnauthorizedError(<<"Incorrect email or password">>)
                          ELSE IF rejection # None THEN rejection[1]
                          ELSE Success
          IN  Respond("login", user_id,
                      Some([headers |-> headers, authenticated |-> authenticated]),
                      response, IF response = Success THEN {Token(user_id)} ELSE {})
    /\ UNCHANGED <<db, requests, gate>>

(* ------------------------------ logging in ---------------------------- *)

\* Tenants alpha and beta, each active or not; the four users log in, with
\* the right password or a wrong one, from a bare localhost or from alpha's
\* host, with or without the x-tenant-subdomain header.
LoginTenants ==
    {(1 :> [subdomain |-> "alpha", name |-> "Alpha", is_active |-> a]) @@
     (2 :> [subdomain |-> "beta", name |-> "Beta", is_active |-> b]) :
        a \in BOOLEAN, b \in BOOLEAN}
LoginHeaders ==
    [x_tenant_subdomain : {None, Some("alpha"), Some("beta"), Some("gamma")},
     host : {Some("localhost"), Some("alpha.darmanager.net")}]

InitLogin ==
    /\ tenants \in LoginTenants
    /\ users = SeedUsers
    /\ properties = <<>>
    /\ rooms = <<>>
    /\ guests = <<>>
    /\ bookings = <<>>
    /\ last = Idle
    /\ requests = <<>>
    /\ gate = None

NextLogin ==
    \E headers \in LoginHeaders, user_id \in DOMAIN users, authenticated \in BOOLEAN :
        login(headers, user_id, authenticated)

SpecLogin == InitLogin /\ [][NextLogin]_vars

(* ------------------- hosts around the base domain --------------------- *)

\* Three tenants, each active or not, one with a dot in its subdomain
\* (TenantCreate takes any string); requests without a hint from hosts that
\* end with a base domain, hold one in the middle, or have several labels.
SuffixTenants ==
    {(1 :> [subdomain |-> "alpha", is_active |-> a]) @@
     (2 :> [subdomain |-> "beta", is_active |-> b]) @@
     (3 :> [subdomain |-> "alpha.beta", is_active |-> c]) :
        a \in BOOLEAN, b \in BOOLEAN, c \in BOOLEAN}
SuffixHosts ==
    {"localhost", "darmanager.net", "alpha.localhost", "alpha.localhost:3000",
     "alpha.darmanager.net", "beta.darmanager.net:443", "alpha.evil.com",
     "alpha.darmanager.net.evil.com", "beta.localhost.evil.com",
     "alpha.darmanager.network", "alpha.beta.darmanager.net", "beta.alpha.localhost",
     "gamma.darmanager.net"}
SuffixHeaders == [x_tenant_subdomain : {None, Some("")}, host : {Some(h) : h \in SuffixHosts}]

InitSuffix ==
    /\ tenants \in SuffixTenants
    /\ users = SeedUsers
    /\ properties = <<>>
    /\ rooms = <<>>
    /\ guests = <<>>
    /\ bookings = <<>>
    /\ last = Idle
    /\ requests = <<>>
    /\ gate = None

NextSuffix == \E headers \in SuffixHeaders : get_current_tenant_info(headers)

SpecSuffix == InitSuffix /\ [][NextSuffix]_vars

(* --------------------------- creating users --------------------------- *)

MaxUsers == 6

\* db.query(User).filter(User.email == user_create.email).first()
existing_user(email) == {u \in DOMAIN users : users[u].email = email}

\* auth.py lines 88-96: the User of register takes the role of the body and
\* no tenant_id
register_User(user_create) ==
    [role |-> user_create.role, tenant_id |-> None, email |-> user_create.email]

\* auth.py lines 73-101; the caller passed get_current_admin
register(user_id, user_create) ==
    /\ users[user_id].role \in {"admin", SUPER_ADMIN}
    /\ IF existing_user(user_create.email) # {}
       THEN /\ Respond("register", user_id, Some([body |-> user_create]),
                       ConflictError(<<"Email already registered">>), {})
            /\ UNCHANGED users
       ELSE LET id == new_id(users, MaxUsers)
            IN  /\ Cardinality(DOMAIN users) < MaxUsers
                /\ users' = users @@ (id :> register_User(user_create))
                /\ Respond("register", user_id, Some([body |-> user_create]), Success, {id})
    /\ UNCHANGED <<tenants, properties, rooms, guests, bookings, requests, gate>>

\* tenants.py lines 168-177: the User of create_tenant_admin takes the role
\* ADMIN and the tenant_id of the path
tenant_admin_User(tenant_id, user_create) ==
    [role |-> "admin", tenant_id |-> Some(tenant_id), email |-> user_create.email]

\* tenants.py lines 147-182; the caller passed require_super_admin
create_tenant_admin(user_id, tenant_id, user_create) ==
    /\ users[user_id].role = SUPER_ADMIN
    /\ LET target == Some([tenant_id |-> tenant_id, body |-> user_create])
       IN  IF tenant_id \notin DOMAIN tenants
           THEN /\ Respond("create_tenant_admin", user_id, target,
                           NotFoundError("Tenant", tenant_id), {})
                /\ UNCHANGED users
           ELSE IF existing_user(user_create.email) # {}
           THEN /\ Respond("create_tenant_admin", user_id, target,
                           ConflictError(<<"Email already registered">>), {})
                /\ UNCHANGED users
           ELSE LET id == new_id(users, MaxUsers)
                IN  /\ Cardinality(DOMAIN users) < MaxUsers
                    /\ users' = users @@ (id :> tenant_admin_User(tenant_id, user_create))
                    /\ Respond("create_tenant_admin", user_id, target, Success, {id})
    /\ UNCHANGED <<tenants, properties, rooms, guests, bookings, requests, gate>>

\* The seeded tenants and users, each user with an email; admins register
\* users and the super admin creates tenant admins, with every role and
\* tenant id a body can carry, for stored and unknown tenants and for new
\* and registered emails.
UserCreates == [email : {"root", "a", "b"}, role : {SUPER_ADMIN, "admin", "staff"}, tenant_id : {None, Some(2)}]
SeedEmails == (1 :> "root") @@ (2 :> "alpha") @@ (3 :> "beta") @@ (4 :> "staff")
InitUsers ==
    /\ tenants = SeedTenants
    /\ users = [u \in DOMAIN SeedUsers |->
                  [role |-> SeedUsers[u].role, tenant_id |-> SeedUsers[u].tenant_id,
                   email |-> SeedEmails[u]]]
    /\ properties = <<>>
    /\ rooms = <<>>
    /\ guests = <<>>
    /\ bookings = <<>>
    /\ last = Idle
    /\ requests = <<>>
    /\ gate = None
NextUsers ==
    \/ \E user_id \in DOMAIN users, user_create \in UserCreates :
          register(user_id, user_create)
    \/ \E user_id \in DOMAIN users, tenant_id \in 1..MaxTenants, user_create \in UserCreates :
          create_tenant_admin(user_id, tenant_id, user_create)
SpecUsers == InitUsers /\ [][NextUsers]_vars

(* ------------------------- database sessions ------------------------- *)

\* Sessions of startup_event (the slot after the last) and of the requests served after a
\* successful startup (slots 1..MaxSessions).  requests holds, for every one
\* that has begun, its position pc, its session ("open" once SessionLocal()
\* made it or a query used it, "closed" after db.close()) and, for startup
\* only, the get_db generator ("suspended" at its yield, "closed" once
\* finalized).
MaxSessions == 3
Startup == MaxSessions + 1
SessionSlots == 1..MaxSessions

Step(slot, pc, session) == requests' = [requests EXCEPT ![slot].pc = pc, ![slot].session = session]

\* database.py lines 45-47 under Depends(get_db): SessionLocal(), yield db
get_db_yield(slot) ==
    /\ Startup \in DOMAIN requests /\ requests[Startup].pc = "started"
    /\ slot \notin DOMAIN requests
    /\ requests' = requests @@
           (slot :> [op |-> "request", pc |-> "handler", session |-> "open",
                     generator |-> "suspended"])
    /\ UNCHANGED <<db, last, gate>>

\* the handler returns its response
handler_return(slot) ==
    /\ slot \in DOMAIN requests /\ requests[slot].pc = "handler"
    /\ Step(slot, "returned", "open")
    /\ UNCHANGED <<db, last, gate>>

\* the handler raises
handler_raise(slot) ==
    /\ slot \in DOMAIN requests /\ requests[slot].pc = "handler"
    /\ Step(slot, "raised", "open")
    /\ UNCHANGED <<db, last, gate>>

\* database.py lines 48-49: the framework resumes the generator after the
\* handler left, by return or by exception, and finally runs db.close()
get_db_finally(slot) ==
    /\ slot \in DOMAIN requests /\ slot # Startup
    /\ requests[slot].pc \in {"returned", "raised"}
    /\ requests' = [requests EXCEPT ![slot].pc = IF @ = "returned" THEN "done" ELSE "failed",
                                     ![slot].session = "closed",
                                     ![slot].generator = "closed"]
    /\ UNCHANGED <<db, last, gate>>

\* main.py line 97: init_database() returns or raises, before any session
startup_init_database(ok) ==
    /\ Startup \notin DOMAIN requests
    /\ requests' = requests @@
           (Startup :> [op |-> "startup_event", pc |-> IF ok THEN "get_db" ELSE "except",
                        session |-> "none", generator |-> "none"])
    /\ UNCHANGED <<db, last, gate>>

\* main.py line 103: db = next(get_db()) runs the generator to its yield and
\* keeps no reference to the generator
startup_get_db ==
    /\ Startup \in DOMAIN requests /\ requests[Startup].pc = "get_db"
    /\ requests' = [requests EXCEPT ![Startup].pc = "query", ![Startup].session = "open",
                                     ![Startup].generator = "suspended"]
    /\ UNCHANGED <<db, last, gate>>

\* the unreferenced generator of line 103 is finalized, at once under
\* reference counting or at a later collection: GeneratorExit is raised at
\* the yield and database.py lines 48-49 run db.close()
generator_finalize ==
    /\ Startup \in DOMAIN requests /\ requests[Startup].generator = "suspended"
    /\ requests' = [requests EXCEPT ![Startup].session = "closed",
                                     ![Startup].generator = "closed"]
    /\ UNCHANGED <<db, last, gate>>

\* main.py line 104: db.query(User)...first() uses the session, which begins
\* a transaction also after a close, and returns or raises
startup_query(ok) ==
    /\ Startup \in DOMAIN requests /\ requests[Startup].pc = "query"
    /\ Step(Startup, IF ok THEN "close" ELSE "except", "open")
    /\ UNCHANGED <<db, last, gate>>

\* main.py line 111: db.close(), on the path where no step raised
startup_close ==
    /\ Startup \in DOMAIN requests /\ requests[Startup].pc = "close"
    /\ Step(Startup, "started", "closed")
    /\ UNCHANGED <<db, last, gate>>

\* main.py lines 117-119: except Exception prints and raises again
startup_except ==
    /\ Startup \in DOMAIN requests /\ requests[Startup].pc = "except"
    /\ Step(Startup, "raised", requests[Startup].session)
    /\ UNCHANGED <<db, last, gate>>

NextSessions ==
    \/ \E ok \in BOOLEAN : startup_init_database(ok)
    \/ startup_get_db
    \/ generator_finalize
    \/ \E ok \in BOOLEAN : startup_query(ok)
    \/ startup_close
    \/ startup_except
    \/ \E slot \in SessionSlots : get_db_yield(slot)
    \/ \E slot \in SessionSlots : handler_return(slot)
    \/ \E slot \in SessionSlots : handler_raise(slot)
    \/ \E slot \in SessionSlots : get_db_finally(slot)

\* every step that is ready is taken in the end: startup and the handlers
\* run on, and the collector runs
SpecSessions == Init /\ [][NextSessions]_vars /\ WF_vars(NextSessions)

(* ------------------ errors of the database in a request -------------- *)

\* dashboard_service.py lines 24-106 on a database that answers: the counts
\* of the statistics (the revenue sums are left out, bookings here carry no
\* amount)
DashboardStats(user) ==
    LET tenant_id == get_user_tenant_id(user)
        scope == IF user.role = SUPER_ADMIN THEN DOMAIN properties
                 ELSE IF tenant_id = None THEN {}
                 ELSE {p \in DOMAIN properties :
                          properties[p].tenant_id = Some(uuid_of(tenant_id[1]))}
        own(table) == {i \in DOMAIN table : table[i].property_id \in scope}
    IN  [total_properties |-> Cardinality(scope),
         total_rooms |-> IF user.role = SUPER_ADMIN THEN Cardinality(DOMAIN rooms)
                         ELSE Cardinality(own(rooms)),
         total_guests |-> IF user.role = SUPER_ADMIN THEN Cardinality(DOMAIN guests)
                          ELSE IF tenant_id = None THEN 0
                          ELSE Cardinality({g \in DOMAIN guests :
                                   guests[g].tenant_id = Some(uuid_of(tenant_id[1]))}),
         active_bookings |->
             Cardinality({b \in IF user.role = SUPER_ADMIN THEN DOMAIN bookings
                                ELSE own(bookings) :
                             bookings[b].status \in {"confirmed", "checked_in"}})]

\* the user's request runs queries: lines 46-57 return zeros before any
\* query for a user that is no super admin and has no tenant
dashboard_queries(user) == user.role = SUPER_ADMIN \/ get_user_tenant_id(user) # None

\* lines 107-111: except Exception as e raises an HTTPException whose detail
\* is an f-string with str(e); no handler is registered for HTTPException
\* (app/main.py lines 47-50), so the framework answers with that detail
get_dashboard_stats_except(e) ==
    HTTPException(500, <<"Error retrieving dashboard data: " \o e>>)

\* endpoints/dashboard.py lines 19-26; exc is the text of the SQLAlchemyError
\* a query of the request raises, None when the database answers
get_dashboard(user_id, exc) ==
    /\ exc # None => dashboard_queries(users[user_id])
    /\ IF exc = None
       THEN Respond("get_dashboard", user_id, Some([exc |-> exc]), Success,
                    {DashboardStats(users[user_id])})
       ELSE Respond("get_dashboard", user_id, Some([exc |-> exc]),
                    get_dashboard_stats_except(exc[1]), {})
    /\ UNCHANGED <<db, requests, gate>>

\* a query of get_bookings raises an SQLAlchemyError: no code of the endpoint
\* or of the service catches it, and app/main.py line 49 hands it to
\* database_exception_handler
get_bookings_SQLAlchemyError(user_id, exc) ==
    /\ Respond("get_bookings", user_id, Some([exc |-> Some(exc)]), database_exception_handler, {})
    /\ UNCHANGED <<db, requests, gate>>

\* The seeded rows; a tenant's admin creates and deletes bookings, and every
\* user asks for the bookings and for the dashboard while the database
\* answers or raises one of two errors.
ExcTexts == {"connection refused", "relation bookings does not exist"}
ErrorCreates == BookingCreates(PropertyIds, GuestIds, {1}, {2}, {"confirmed", "cancelled"})
NextErrors ==
    \/ \E user_id \in DOMAIN users, exc \in {None} \cup {Some(e) : e \in ExcTexts} :
          get_dashboard(user_id, exc)
    \/ \E user_id \in DOMAIN users, exc \in ExcTexts :
          get_bookings_SQLAlchemyError(user_id, exc)
    \/ \E user_id \in BookingCallers, data \in ErrorCreates : create_booking(user_id, data)
    \/ \E user_id \in BookingCallers, id \in BookingIds : delete_booking(user_id, id)
SpecErrors == Init /\ [][NextErrors]_vars

(* ----------------------- waiting for the database --------------------- *)

\* database.py lines 51-70, one call at a time; requests[Waiter] is the
\* call's frame: its arguments, retries, the attempts made and the seconds
\* slept so far, its position pc, and how it ended: returned holds the value
\* of a return, raised the attempt whose OperationalError left the function.
MaxRetries == 5
MaxInterval == 2
Waiter == "wait_for_database"
Waiting == Waiter \in DOMAIN requests
frame == requests[Waiter]

\* line 55: retries = 0
wait_for_database(max_retries, retry_interval) ==
    /\ ~Waiting
    /\ requests' = (Waiter :> [max_retries |-> max_retries,
                               retry_interval |-> retry_interval, retries |-> 0,
                               attempts |-> 0, slept |-> 0, pc |-> "while",
                               returned |-> None, raised |-> None])
    /\ UNCHANGED <<db, last, gate>>

\* lines 56 and 70: while retries < max_retries, else return False
wait_while ==
    /\ Waiting /\ frame.pc = "while"
    /\ requests' = [requests EXCEPT ![Waiter] =
           IF @.retries < @.max_retries
           THEN [@ EXCEPT !.pc = "connect"]
           ELSE [@ EXCEPT !.pc = "done", !.returned = Some(FALSE)]]
    /\ UNCHANGED <<db, last, gate>>

retries_exhausted_Late(retries, max_retries) == retries > max_retries

\* line 66
retries_exhausted(retries, max_retries) == retries >= max_retries

\* lines 57-69: engine.connect() answers and the function returns True, or
\* raises OperationalError: retries += 1, then raise when the retries are
\* used up, else sleep
wait_connect(ok) ==
    /\ Waiting /\ frame.pc = "connect"
    /\ requests' = [requests EXCEPT ![Waiter] =
           IF ok
           THEN [@ EXCEPT !.attempts = @ + 1, !.pc = "done", !.returned = Some(TRUE)]
           ELSE IF retries_exhausted(@.retries + 1, @.max_retries)
           THEN [@ EXCEPT !.attempts = @ + 1, !.retries = @ + 1, !.pc = "done",
                          !.raised = Some(frame.attempts + 1)]
           ELSE [@ EXCEPT !.attempts = @ + 1, !.retries = @ + 1, !.pc = "sleep"]]
    /\ UNCHANGED <<db, last, gate>>

\* line 69: time.sleep(retry_interval)
wait_sleep ==
    /\ Waiting /\ frame.pc = "sleep"
    /\ requests' = [requests EXCEPT ![Waiter].pc = "while",
                                     ![Waiter].slept = @ + frame.retry_interval]
    /\ UNCHANGED <<db, last, gate>>

NextWait ==
    \/ \E max_retries \in 0..MaxRetries, retry_interval \in 0..MaxInterval :
          wait_for_database(max_retries, retry_interval)
    \/ wait_while
    \/ \E ok \in BOOLEAN : wait_connect(ok)
    \/ wait_sleep

\* the call runs on: every step that is ready is taken
SpecWait == Init /\ [][NextWait]_vars /\ WF_vars(NextWait)

(* ------------------------------ claims -------------------------------- *)

\* what the claims mean by access, stated without the gate's code
IsSuperAdmin(user_id) == users[user_id].role = "super_admin"
OwnTenant(user_id, tenant_id) ==
    /\ users[user_id].tenant_id # None
    /\ tenant_id = users[user_id].tenant_id
MayAccess(user_id, tenant_id) == IsSuperAdmin(user_id) \/ OwnTenant(user_id, tenant_id)
Blocking == {"pending", "confirmed", "checked_in"}
Overlap(a1, a2, b1, b2) == a1 < b2 /\ b1 < a2

\* C1: after any sequence of create_booking, update_booking (date changes and
\* status-only changes alike) and delete_booking calls made one at a time, no
\* property has two bookings with status pending, confirmed or checked_in
\* whose intervals [check_in_date, check_out_date) overlap.
C1_NoDoubleBooking ==
    \A a, b \in DOMAIN bookings :
        (/\ a # b
         /\ bookings[a].property_id = bookings[b].property_id
         /\ bookings[a].status \in Blocking
         /\ bookings[b].status \in Blocking)
        => ~Overlap(bookings[a].check_in_date, bookings[a].check_out_date,
                    bookings[b].check_in_date, bookings[b].check_out_date)

\* C2: the overlap check and the write that follows it are atomic with
\* respect to the other booking writes on the property: of two create_booking
\* or update_booking requests for one property and overlapping dates whose
\* check and commit steps interleave, at most one commits, so a booking a
\* request has just committed overlaps no other active booking of its property.
C2_CheckThenWriteAtomic ==
    (/\ last.op \in {"create_booking", "update_booking"}
     /\ last.response = Success)
    => \A id \in last.result, other \in DOMAIN bookings \ last.result :
          (/\ bookings[other].property_id = bookings[id].property_id
           /\ bookings[id].status \in Blocking
           /\ bookings[other].status \in Blocking)
          => ~Overlap(bookings[id].check_in_date, bookings[id].check_out_date,
                      bookings[other].check_in_date, bookings[other].check_out_date)

\* two requests for one property and overlapping dates, both past their check
C2_Witness ==
    \E r1, r2 \in DOMAIN requests :
        /\ r1 # r2
        /\ requests[r1].op = "create_booking" /\ requests[r2].op = "create_booking"
        /\ requests[r1].data[1].property_id = requests[r2].data[1].property_id
        /\ Overlap(requests[r1].data[1].check_in_date, requests[r1].data[1].check_out_date,
                   requests[r2].data[1].check_in_date, requests[r2].data[1].check_out_date)

\* C3: a create_booking request for [s, e) with s < e, on a property and for a
\* guest the caller may use, is answered Conflict exactly when a stored booking
\* of the same property with status pending, confirmed or checked_in has
\* s < c_out and c_in < e, and the Conflict names such a booking's dates;
\* adjacent intervals, checked_out and cancelled bookings and bookings of
\* other properties do not block: the request then succeeds.
C3_ConflictIffOverlap ==
    \A u \in DOMAIN users,
       data \in BookingCreates(DOMAIN properties, DOMAIN guests, Dates, Dates, BookingStatus) :
        (/\ MayAccess(u, properties[data.property_id].tenant_id)
         /\ MayAccess(u, guests[data.guest_id].tenant_id)
         /\ data.check_in_date < data.check_out_date)
        => LET blockers == {b \in DOMAIN bookings :
                              /\ bookings[b].property_id = data.property_id
                              /\ bookings[b].status \in Blocking
                              /\ data.check_in_date < bookings[b].check_out_date
                              /\ bookings[b].check_in_date < data.check_out_date}
               responses == create_booking_responses(data, users[u])
           IN  IF blockers = {}
               THEN \A r \in responses : r.status = 200
               ELSE responses =
                      {[status |-> 409, code |-> "RESOURCE_CONFLICT",
                        detail |-> <<"Property is already booked from", bookings[b].check_in_date,
                                     "to", bookings[b].check_out_date>>] : b \in blockers}

\* C3 witness: a create_booking was answered Conflict while the property also
\* holds two adjacent active bookings.
C3_Witness ==
    /\ last.op = "create_booking"
    /\ last.response.code = "RESOURCE_CONFLICT"
    /\ \E a, b \in DOMAIN bookings :
          /\ bookings[a].property_id = bookings[b].property_id
          /\ bookings[a].status \in Blocking /\ bookings[b].status \in Blocking
          /\ bookings[a].check_out_date = bookings[b].check_in_date

C4_DatesOrdered ==
    \A b \in DOMAIN bookings : bookings[b].check_in_date < bookings[b].check_out_date

C4_Rejected ==
    /\ \A u \in DOMAIN users,
          data \in BookingCreates(DOMAIN properties, DOMAIN guests, Dates, Dates, BookingStatus) :
          (/\ MayAccess(u, properties[data.property_id].tenant_id)
           /\ MayAccess(u, guests[data.guest_id].tenant_id)
           /\ data.check_in_date >= data.check_out_date)
          => \A r \in create_booking_responses(data, users[u]) : r.code = "VALIDATION_ERROR"
    /\ \A u \in DOMAIN users, b \in DOMAIN bookings,
          data \in BookingUpdates(DateFields(Dates), DateFields(Dates), BookingStatus) :
          LET check_in == IF data.check_in_date = None THEN bookings[b].check_in_date
                          ELSE data.check_in_date[1][1]
              check_out == IF data.check_out_date = None THEN bookings[b].check_out_date
                           ELSE data.check_out_date[1][1]
          IN  (/\ MayAccess(u, properties[bookings[b].property_id].tenant_id)
               /\ check_in >= check_out)
              => \A r \in update_booking_responses(b, data, users[u]) : r.code = "VALIDATION_ERROR"

\* C4: every stored booking has check_in_date < check_out_date after any
\* sequence of create_booking and update_booking calls (updates that send only
\* one of the two dates included); a request of a caller who may use the
\* property that would make check_in_date >= check_out_date is answered with
\* the validation error and leaves the stored bookings unchanged.
C4_DatesValidated ==
    /\ [](C4_DatesOrdered /\ C4_Rejected)
    /\ [][last'.response.code = "VALIDATION_ERROR" => bookings' = bookings]_vars

\* C4 witness: an update_booking was answered with the validation error.
C4_Witness ==
    /\ last.op = "update_booking"
    /\ last.response.code = "VALIDATION_ERROR"
    /\ last.target # None /\ last.target[1] \in DOMAIN bookings

\* C5: for a user that is not a super admin and a resource tenant id t,
\* validate_tenant_access answers true exactly when t is the text of the
\* user's own tenant id, and false when exactly one of the two is absent.
\* (Both absent is C6's case.)
C5_OwnTenantOnly ==
    gate # None =>
        LET user == gate[1].user
            t == gate[1].tenant_id
        IN  user.role # "super_admin" =>
              /\ (user.tenant_id # None /\ t # None)
                    => (gate[1].result <=> ToString(user.tenant_id[1]) = t[1])
              /\ ((user.tenant_id = None) # (t = None)) => ~gate[1].result

C5_Witness ==
    /\ gate # None
    /\ gate[1].user.role = "staff"
    /\ gate[1].user.tenant_id = Some(2)
    /\ gate[1].tenant_id = Some("2")
    /\ gate[1].result

\* C6: for a user that is not a super admin and has no tenant,
\* validate_tenant_access answers false for a resource without a tenant id.
C6_BothAbsentDenied ==
    (/\ gate # None
     /\ gate[1].user.role # "super_admin"
     /\ gate[1].user.tenant_id = None
     /\ gate[1].tenant_id = None)
    => ~gate[1].result

C6_Witness ==
    /\ gate # None
    /\ gate[1].user.role = "staff"
    /\ gate[1].user.tenant_id = None
    /\ gate[1].tenant_id = None

\* the tenant a stored row belongs to; a booking inherits its property's
PropertyTenant(id) == properties[id].tenant_id
GuestTenant(id) == guests[id].tenant_id
BookingTenant(id) == properties[bookings[id].property_id].tenant_id

\* C7: for every super admin, validate_tenant_access answers true for every
\* resource tenant id, present or absent, and get_booking_with_validation
\* returns every stored booking whatever the tenant of its property; a
\* get_booking request of a super admin for a stored booking succeeds.
C7_SuperAdminSeesAll ==
    /\ \A user \in GateUsers :
          user.role = "super_admin" =>
            /\ \A t \in GateTenantIds : validate_tenant_access(user, t)
            /\ \A b \in DOMAIN bookings : get_booking_with_validation(b, user) = Some(b)
    /\ (/\ last.op = "get_booking"
        /\ IsSuperAdmin(last.caller[1])
        /\ last.target[1] \in DOMAIN bookings)
       => last.response = Success /\ last.result = {last.target[1]}

C7_Witness ==
    /\ last.op = "get_booking"
    /\ IsSuperAdmin(last.caller[1])
    /\ last.target[1] \in DOMAIN bookings
    /\ BookingTenant(last.target[1]) = Some(2)
    /\ last.response = Success

\* the requests that name one row, and the kind of row they name
GatedOps ==
    [get_property |-> "Property", update_property |-> "Property", delete_property |-> "Property",
     get_guest |-> "Guest", update_guest |-> "Guest", delete_guest |-> "Guest",
     get_booking |-> "Booking", update_booking |-> "Booking", delete_booking |-> "Booking"]
NotFound(kind) == [status |-> 404, code |-> "RESOURCE_NOT_FOUND", detail |-> <<kind, "not found">>]
\* the row the request names, before the request: absent, or owned by a tenant
Absent(kind, id) ==
    \/ kind = "Property" /\ id \notin DOMAIN properties
    \/ kind = "Guest" /\ id \notin DOMAIN guests
    \/ kind = "Booking" /\ id \notin DOMAIN bookings
Foreign(kind, id, user_id) ==
    \/ kind = "Property" /\ id \in DOMAIN properties /\ ~OwnTenant(user_id, PropertyTenant(id))
    \/ kind = "Guest" /\ id \in DOMAIN guests /\ ~OwnTenant(user_id, GuestTenant(id))
    \/ kind = "Booking" /\ id \in DOMAIN bookings /\ ~OwnTenant(user_id, BookingTenant(id))

\* C8: when a caller that is not a super admin gets, updates or deletes a
\* property, guest or booking that another tenant owns, the response is the
\* response the same request gets for an id no row has (404, not found, the
\* resource kind and nothing of the id), never a forbidden one, and no
\* table changes.
C8_ForeignLooksAbsent ==
    [][(/\ last'.op \in DOMAIN GatedOps
        /\ ~IsSuperAdmin(last'.caller[1])
        /\ \/ Absent(GatedOps[last'.op], last'.target[1])
           \/ Foreign(GatedOps[last'.op], last'.target[1], last'.caller[1]))
       => /\ last'.response = NotFound(GatedOps[last'.op])
          /\ last'.result = {}
          /\ UNCHANGED db]_vars

C8_Witness ==
    /\ last.op = "update_property"
    /\ last.caller = Some(2)
    /\ last.target[1] \in DOMAIN properties
    /\ PropertyTenant(last.target[1]) = Some(2)
    /\ last.response.status = 404

\* the rows of a user's own tenant, and the list requests by kind of row
OwnRows(user_id) ==
    [Property |-> {p \in DOMAIN properties : OwnTenant(user_id, PropertyTenant(p))},
     Guest |-> {g \in DOMAIN guests : OwnTenant(user_id, GuestTenant(g))},
     Booking |-> {b \in DOMAIN bookings : OwnTenant(user_id, BookingTenant(b))}]
ListOps == [get_properties |-> "Property", get_guests |-> "Guest", get_bookings |-> "Booking"]

\* C9: in every reachable state, for every user that is not a super admin,
\* get_properties_for_user, get_guests_for_user and get_bookings_for_user
\* (under any filter) return only rows of the user's tenant, a booking being
\* of its property's tenant, and nothing for a user without a tenant; the
\* list a request was answered with is such a list.
C9_ListsOwnTenantOnly ==
    /\ \A u \in DOMAIN users :
          ~IsSuperAdmin(u) =>
            /\ get_properties_for_user(users[u]) \subseteq OwnRows(u).Property
            /\ get_guests_for_user(users[u]) \subseteq OwnRows(u).Guest
            /\ \A g \in {None} \cup {Some(i) : i \in GuestIds},
                  p \in {None} \cup {Some(i) : i \in PropertyIds} :
                    get_bookings_for_user(users[u], g, p) \subseteq OwnRows(u).Booking
    /\ (last.op \in DOMAIN ListOps /\ ~IsSuperAdmin(last.caller[1]))
       => last.result \subseteq OwnRows(last.caller[1])[ListOps[last.op]]

C9_Witness ==
    /\ last.op = "get_bookings"
    /\ last.caller = Some(3)
    /\ last.result = {}
    /\ \E b \in DOMAIN bookings : BookingTenant(b) = Some(1)
    /\ \E p \in DOMAIN properties : PropertyTenant(p) = Some(2)

\* C10: a property or guest stored by create_property or create_guest has
\* the tenant id of the caller that created it, whatever tenant id the
\* payload carried.
C10_CreatedUnderCallersTenant ==
    /\ \A u \in DOMAIN users, payload \in PropertyPayloads \cup GuestPayloads :
          get_user_tenant_id(users[u]) # None
            => assign_tenant_id(payload, get_user_tenant_id(users[u])) = users[u].tenant_id
    /\ (last.op = "create_property" /\ last.response = Success)
       => \A id \in last.result : OwnTenant(last.caller[1], PropertyTenant(id))
    /\ (last.op = "create_guest" /\ last.response = Success)
       => \A id \in last.result : OwnTenant(last.caller[1], GuestTenant(id))

C10_Witness ==
    /\ last.op = "create_guest"
    /\ last.caller = Some(3)
    /\ last.response = Success
    /\ \E id \in last.result : GuestTenant(id) = Some(2)


\* the 400 answers of create_property and create_guest, by the claim's words
CreateOps == [create_property |-> "properties", create_guest |-> "guests"]
BadRequest(message, kind) == [status |-> 400, code |-> "", detail |-> <<message, kind>>]
C11_Rejection(user, kind) ==
    IF user.role = "super_admin"
    THEN Some(BadRequest("Super admin must use tenant-specific endpoints to create", kind))
    ELSE IF user.tenant_id = None
    THEN Some(BadRequest("User must be associated with a tenant to create", kind))
    ELSE None

\* C11: create_property and create_guest by a super admin are answered 400
\* "must use tenant-specific endpoints", and by another user without a tenant
\* 400 "must be associated with a tenant"; either way no table changes.
C11_CreateNeedsTenant ==
    /\ [](\A user \in GateUsers, kind \in {"properties", "guests"} :
            C11_Rejection(user, kind) # None
              => create_rejection(user, kind) = C11_Rejection(user, kind))
    /\ [][(/\ last'.op \in DOMAIN CreateOps
            /\ C11_Rejection(users[last'.caller[1]], CreateOps[last'.op]) # None)
           => /\ last'.response =
                    C11_Rejection(users[last'.caller[1]], CreateOps[last'.op])[1]
              /\ last'.result = {}
              /\ UNCHANGED db]_vars

C11_Witness ==
    /\ last.op = "create_guest"
    /\ last.caller = Some(1)
    /\ last.response.status = 400
    /\ guests = <<>>


\* the tenant of a room is the tenant of its property
RoomTenant(id) == properties[rooms[id].property_id].tenant_id

\* C12: a caller that is not a super admin lists, reads, creates, updates or
\* deletes a room only when the room's property is of the caller's tenant;
\* for a room of another tenant's property the answer is not-found and the
\* rooms are unchanged.
C12_RoomsGated ==
    [][~IsSuperAdmin(last'.caller[1]) =>
        /\ (/\ last'.op \in {"get_room", "update_room", "delete_room"}
            /\ last'.target[1] \in DOMAIN rooms
            /\ ~OwnTenant(last'.caller[1], RoomTenant(last'.target[1])))
           => last'.response = NotFound("Room") /\ rooms' = rooms
        /\ (last'.op = "create_room" /\ last'.response = Success)
           => \A id \in last'.result :
                 OwnTenant(last'.caller[1], properties[rooms'[id].property_id].tenant_id)
        /\ last'.op = "get_rooms"
           => \A row \in last'.result :
                 OwnTenant(last'.caller[1], properties[row.property_id].tenant_id)]_vars

\* tenant 1's admin has changed a room of tenant 2's property
C12_Witness ==
    /\ last.op = "update_room"
    /\ last.caller = Some(2)
    /\ last.target[1] \in DOMAIN rooms
    /\ RoomTenant(last.target[1]) = Some(2)
    /\ last.response = Success
    /\ rooms[last.target[1]].name = "b"


\* C13: the financial report a user that is not a super admin is answered
\* with aggregates exactly the checked-out bookings of the period whose
\* property is of the user's tenant; a user without a tenant is shown no
\* booking and no revenue of any tenant.
C13_ReportOwnTenantOnly ==
    (/\ last.op = "get_financial_report"
     /\ last.response = Success
     /\ ~IsSuperAdmin(last.caller[1]))
    => \A report \in last.result :
          LET own == {b \in DOMAIN bookings :
                        /\ bookings[b].status = "checked_out"
                        /\ bookings[b].check_out_date >= report.start_date
                        /\ bookings[b].check_out_date <= report.end_date
                        /\ OwnTenant(last.caller[1], BookingTenant(b))}
          IN  /\ \A row \in report.properties :
                    /\ OwnTenant(last.caller[1], PropertyTenant(row.property_id))
                    /\ row.bookings_count =
                          Cardinality({b \in own : bookings[b].property_id = row.property_id})
              /\ {row.property_id : row \in report.properties}
                    = {bookings[b].property_id : b \in own}
              /\ report.total_revenue = sum_amounts(own)

\* the user without a tenant has been shown revenue
C13_Witness ==
    /\ last.op = "get_financial_report"
    /\ last.caller = Some(4)
    /\ last.response = Success
    /\ \E report \in last.result : report.total_revenue > 0


\* The bookings that reference a guest, and the refusal of a delete that n
\* rows of a kind block.
GuestBookings(g) == {b \in DOMAIN bookings : bookings[b].guest_id = g}

IsDependencyConflict(response) ==
    /\ response.status = 409
    /\ response.code = "DEPENDENCY_CONFLICT"

\* C14: delete_guest on a guest that n > 0 bookings reference is refused with
\* a DependencyConflict naming the count n and leaves the guest and the
\* bookings stored; once no booking references the guest (its n bookings were
\* deleted), delete_guest by the same authorized caller succeeds and removes
\* the guest.
C14_GuestDeleteGuarded ==
    /\ [](\A g \in DOMAIN guests, u \in BookingCallers :
            LET n == Cardinality(GuestBookings(g))
                response == delete_guest_response(g, users[u])
            IN  IF n > 0
                THEN /\ IsDependencyConflict(response)
                     /\ response.detail[4] = <<n, "booking(s)">>
                ELSE response = Success)
    /\ [][last'.op = "delete_guest" /\ last'.target # None /\ last'.target[1] \in DOMAIN guests
            => IF GuestBookings(last'.target[1]) # {}
               THEN /\ IsDependencyConflict(last'.response)
                    /\ UNCHANGED <<guests, bookings>>
               ELSE /\ last'.response = Success
                    /\ last'.target[1] \notin DOMAIN guests'
                    /\ UNCHANGED bookings]_vars

\* a delete of the guest was refused because two bookings reference it
C14_Witness ==
    /\ last.op = "delete_guest"
    /\ IsDependencyConflict(last.response)
    /\ last.response.detail[4] = <<2, "booking(s)">>
    /\ 1 \in DOMAIN guests
    /\ Cardinality(GuestBookings(1)) = 2


PropertyRooms(p) == {r \in DOMAIN rooms : rooms[r].property_id = p}
PropertyBookings(p) == {b \in DOMAIN bookings : bookings[b].property_id = p}

\* each blocking kind with its count, rooms first
Blockers(p) ==
    (IF PropertyRooms(p) # {} THEN <<Cardinality(PropertyRooms(p)), "room(s)">> ELSE <<>>) \o
    (IF PropertyBookings(p) # {} THEN <<Cardinality(PropertyBookings(p)), "booking(s)">> ELSE <<>>)

\* C15: delete_property by a caller who may access the property removes it
\* exactly when no room and no booking references it; otherwise the answer is
\* a DependencyConflict that reports each blocking kind (rooms, bookings) with
\* its count, and the property, its rooms and its bookings are unchanged.
\* Bookings of every status block, cancelled and checked-out ones included.
C15_PropertyDeleteGuarded ==
    [][last'.op = "delete_property" /\ last'.target # None
         /\ last'.target[1] \in DOMAIN properties
         /\ MayAccess(last'.caller[1], properties[last'.target[1]].tenant_id)
       => IF PropertyRooms(last'.target[1]) = {} /\ PropertyBookings(last'.target[1]) = {}
          THEN /\ last'.response = Success
               /\ last'.target[1] \notin DOMAIN properties'
               /\ UNCHANGED <<rooms, bookings>>
          ELSE /\ IsDependencyConflict(last'.response)
               /\ last'.response.detail[4] = Blockers(last'.target[1])
               /\ UNCHANGED <<properties, rooms, bookings>>]_vars

\* a delete was refused for one room and one booking, the booking cancelled
C15_Witness ==
    /\ last.op = "delete_property"
    /\ IsDependencyConflict(last.response)
    /\ last.response.detail[4] = <<1, "room(s)", 1, "booking(s)">>
    /\ \A b \in PropertyBookings(last.target[1]) : bookings[b].status = "cancelled"


\* the rows of each table that a tenant owns, bookings through their property
TenantUsers(t) == {u \in DOMAIN users : users[u].tenant_id = Some(t)}
TenantPropertyIds(t) == {p \in DOMAIN properties : properties[p].tenant_id = Some(t)}
TenantGuestIds(t) == {g \in DOMAIN guests : guests[g].tenant_id = Some(t)}
TenantBookings(t) == {b \in DOMAIN bookings : bookings[b].property_id \in TenantPropertyIds(t)}

Counting(room) ==
    {b \in DOMAIN bookings : /\ bookings[b].property_id = room.property_id
                             /\ bookings[b].status \in {"confirmed", "checked_in"}}

ExpectedStatus(room, today) ==
    IF \E b \in Counting(room) :
          bookings[b].check_in_date <= today /\ today < bookings[b].check_out_date
    THEN "occupied"
    ELSE IF \E b \in Counting(room) : bookings[b].check_out_date = today
    THEN "cleaning"
    ELSE IF room.status = None THEN "available"
    ELSE room.status[1]

\* C17: calculate_room_status is 'occupied' when a confirmed or checked-in
\* booking of the room's property has check_in_date <= today < check_out_date;
\* otherwise 'cleaning' when such a booking has check_out_date = today;
\* otherwise the room's stored status, 'available' when none is stored.
\* Pending, checked-out and cancelled bookings and bookings of other
\* properties never enter the result, and every room a read returns carries
\* the status of one of the days.
C17_RoomStatus ==
    /\ \A r \in DOMAIN rooms, today \in Dates :
          calculate_room_status(rooms[r], today) = ExpectedStatus(rooms[r], today)
    /\ last.op \in {"get_room", "get_rooms"}
         => \A row \in last.result :
              \E today \in Dates : row.status = ExpectedStatus(rooms[row.id], today)

\* the room stored as under maintenance was read as 'cleaning' on the day a
\* confirmed booking of its property checks out, while a pending booking of
\* the property covers that day
C17_Witness ==
    /\ last.op = "get_room"
    /\ \E row \in last.result :
          /\ row.status = "cleaning"
          /\ rooms[row.id].status = Some("maintenance")
          /\ \E b \in DOMAIN bookings, today \in Dates :
                /\ bookings[b].property_id = rooms[row.id].property_id
                /\ bookings[b].status = "pending"
                /\ bookings[b].check_in_date <= today /\ today < bookings[b].check_out_date
                /\ ExpectedStatus(rooms[row.id], today) = "cleaning"


\* the subdomain each host names; none for a bare localhost, the bare base
\* domain and a host outside both
HostNames ==
    [h \in Hosts |->
        IF h \in {Some("alpha.localhost"), Some("alpha.darmanager.net")} THEN Some("alpha")
        ELSE IF h \in {Some("beta.localhost:3000"), Some("beta.darmanager.net")} THEN Some("beta")
        ELSE IF h = Some("gamma.darmanager.net") THEN Some("gamma")
        ELSE None]

HasHint(headers) == headers.x_tenant_subdomain \notin {None, Some("")}
Candidate(headers) ==
    IF HasHint(headers) THEN headers.x_tenant_subdomain ELSE HostNames[headers.host]
Resolved(headers) ==
    {t \in DOMAIN tenants : /\ Candidate(headers) = Some(tenants[t].subdomain)
                            /\ tenants[t].is_active}

NonEmpty(domain) == domain # None /\ domain # Some("")

UniqueTenants ==
    \A t1, t2 \in DOMAIN tenants :
        t1 # t2 => /\ tenants[t1].subdomain # tenants[t2].subdomain
                   /\ NonEmpty(tenants[t1].domain) => tenants[t1].domain # tenants[t2].domain

\* the tenants a create or an update would duplicate
Duplicated(subdomain, domain, except) ==
    {t \in DOMAIN tenants \ except :
        \/ subdomain # None /\ tenants[t].subdomain = subdomain[1]
        \/ NonEmpty(domain) /\ tenants[t].domain = domain}

IsConflict(response) == response.status = 409 /\ response.code = "RESOURCE_CONFLICT"

\* C19: after any sequence of create_tenant and update_tenant calls made one
\* at a time, no two tenants share a subdomain and no two share a non-empty
\* custom domain; a create or an update that would introduce a duplicate is
\* answered Conflict and leaves every tenant unchanged.
C19_TenantsUnique ==
    /\ []UniqueTenants
    /\ [][/\ last'.op = "create_tenant"
             => LET body == last'.target[1].body
                IN  Duplicated(Some(body.subdomain), body.domain, {}) # {}
                      => IsConflict(last'.response) /\ UNCHANGED tenants
          /\ last'.op = "update_tenant" /\ last'.target[1].id \in DOMAIN tenants
             => LET body == last'.target[1].body
                IN  /\ tenants'[last'.target[1].id].subdomain =
                          tenants[last'.target[1].id].subdomain
                    /\ body.domain # None
                         /\ Duplicated(None, body.domain[1], {last'.target[1].id}) # {}
                       => IsConflict(last'.response) /\ UNCHANGED tenants]_vars

\* an update that would give a tenant the domain of another was refused
C19_Witness ==
    /\ last.op = "update_tenant"
    /\ IsConflict(last.response)
    /\ last.target[1].body.domain = Some(Some("a.com"))
    /\ \E t \in DOMAIN tenants \ {last.target[1].id} : tenants[t].domain = Some("a.com")
    /\ last.target[1].id \in DOMAIN tenants


TokensIssued == last.result # {}
Forbidden(response) == response.status = 403

\* C20: a non-super-admin user is issued tokens only when the request
\* resolves to a tenant and that tenant is the user's own; a login through
\* another tenant's subdomain is answered forbidden and a login through a host
\* with no tenant is rejected, both without tokens; a super admin with valid
\* credentials is issued tokens from any host.
C20_LoginOwnTenant ==
    last.op = "login"
    => LET user == users[last.caller[1]]
           resolved == Resolved(last.target[1].headers)
           own == {t \in resolved : user.tenant_id = Some(t)}
       IN  IF user.role = SUPER_ADMIN
           THEN last.target[1].authenticated => last.response = Success /\ TokensIssued
           ELSE /\ TokensIssued => own # {}
                /\ resolved # {} /\ own = {} /\ last.target[1].authenticated
                     => Forbidden(last.response) /\ ~TokensIssued
                /\ resolved = {} => last.response # Success /\ ~TokensIssued

\* the staff user without a tenant was issued tokens from a bare localhost
C20_Witness ==
    /\ last.op = "login"
    /\ users[last.caller[1]].role = "staff"
    /\ users[last.caller[1]].tenant_id = None
    /\ last.target[1].headers = [x_tenant_subdomain |-> None, host |-> Some("localhost")]
    /\ TokensIssued


\* an update body that sends both dates and nothing else
NewDates(s, e) == [check_in_date |-> Some(Some(s)), check_out_date |-> Some(Some(e)),
                   status |-> None]

\* the active bookings of b's property, other than b, that [s, e) overlaps
OtherBlocking(b, s, e) ==
    {o \in DOMAIN bookings \ {b} :
        /\ bookings[o].property_id = bookings[b].property_id
        /\ bookings[o].status \in Blocking
        /\ Overlap(bookings[o].check_in_date, bookings[o].check_out_date, s, e)}

\* C21: update_booking leaves the updated booking out of the overlap scan: a
\* change of its dates to a valid range that overlaps only its own current
\* interval is accepted, a range that overlaps another active booking of the
\* same property is answered Conflict, and a Conflict leaves the bookings as
\* they were.
C21_UpdateExcludesSelf ==
    /\ [](\A u \in BookingCallers, b \in DOMAIN bookings, s \in Dates, e \in Dates :
            s < e =>
              LET responses == update_booking_responses(b, NewDates(s, e), users[u])
              IN  IF OtherBlocking(b, s, e) = {}
                  THEN responses = {Success}
                  ELSE /\ responses # {}
                       /\ \A r \in responses : IsConflict(r))
    /\ [][last'.op = "update_booking" /\ IsConflict(last'.response)
            => UNCHANGED bookings]_vars

\* booking 1, pending on days 1 to 3, was updated with success while a range
\* over its own days is free of every other booking, and another active
\* booking stands on the other property over the same days
C21_Witness ==
    /\ last.op = "update_booking"
    /\ last.response = Success
    /\ last.target = Some(1)
    /\ DOMAIN bookings = {1, 2}
    /\ bookings[1].status \in Blocking /\ bookings[2].status \in Blocking
    /\ bookings[1].check_in_date = 1 /\ bookings[1].check_out_date = 3
    /\ OtherBlocking(1, 2, 3) = {}
    /\ Overlap(bookings[2].check_in_date, bookings[2].check_out_date, 2, 3)


\* the dates a booking has after an update body is applied
ResultingDates(b, body) ==
    <<IF body.check_in_date = None THEN bookings[b].check_in_date
      ELSE body.check_in_date[1][1],
      IF body.check_out_date = None THEN bookings[b].check_out_date
      ELSE body.check_out_date[1][1]>>
StoredDates(b) == <<bookings[b].check_in_date, bookings[b].check_out_date>>

\* C22: update_booking runs the overlap check exactly when the update changes
\* one of the two dates: an update whose resulting dates both equal the stored
\* ones, the date fields left out or sent again with the same values, is never
\* answered Conflict, and an update that changes a date to a valid range is
\* answered Conflict exactly when another active booking of the property
\* overlaps the range.
C22_CheckIffDatesChange ==
    \A u \in BookingCallers, b \in DOMAIN bookings,
       body \in BookingUpdates(DateFields(Dates), DateFields(Dates), BookingStatus) :
        LET responses == update_booking_responses(b, body, users[u])
            dates == ResultingDates(b, body)
        IN  IF dates = StoredDates(b)
            THEN \A r \in responses : ~IsConflict(r)
            ELSE dates[1] < dates[2]
                 => ((\E r \in responses : IsConflict(r))
                       <=> OtherBlocking(b, dates[1], dates[2]) # {})

\* an update of the cancelled booking 1 was answered Conflict while the
\* pending booking 2 holds the same days of the same property
C22_Witness ==
    /\ last.op = "update_booking"
    /\ last.target = Some(1)
    /\ IsConflict(last.response)
    /\ DOMAIN bookings = {1, 2}
    /\ bookings[1].status = "cancelled"
    /\ bookings[2].status = "pending"
    /\ bookings[1].property_id = bookings[2].property_id
    /\ StoredDates(1) = StoredDates(2)
    /\ \E r \in update_booking_responses(1, NewDates(bookings[1].check_in_date,
                                                     bookings[1].check_out_date), users[2]) :
          IsConflict(r)


\* the host without its port; whether a text ends with a suffix; the label a
\* host names: what stands before the base-domain suffix when that is one
\* label
WithoutPort(host) == split_first(host, ":")
EndsWith(text, suffix) ==
    /\ Len(text) >= Len(suffix)
    /\ SubSeq(text, Len(text) - Len(suffix) + 1, Len(text)) = suffix
BeforeSuffix(text, suffix) == SubSeq(text, 1, Len(text) - Len(suffix))
LeftmostLabel(host) ==
    LET h == WithoutPort(host)
        suffixes == {s \in {".localhost", ".darmanager.net"} : EndsWith(h, s)}
    IN  IF suffixes = {} THEN None
        ELSE LET label == BeforeSuffix(h, CHOOSE s \in suffixes : TRUE)
             IN  IF label = "" \/ Contains(".", label) THEN None ELSE Some(label)

\* C23: without a hint, get_tenant_from_subdomain derives a subdomain only
\* from a host that ends with '.localhost' or the production base domain
\* (a port may follow), and the candidate is the one leftmost label; a host
\* with the suffix in the middle, or with several labels before it, resolves
\* to no tenant.
C23_LeftmostLabelOnly ==
    \A headers \in SuffixHeaders :
        get_tenant_from_subdomain(headers) =
            {t \in DOMAIN tenants : /\ LeftmostLabel(headers.host[1]) = Some(tenants[t].subdomain)
                                    /\ tenants[t].is_active}

\* a request from alpha.darmanager.net.evil.com resolved to tenant alpha
C23_Witness ==
    /\ last.op = "get_current_tenant_info"
    /\ last.target[1].host = Some("alpha.darmanager.net.evil.com")
    /\ last.response = Success
    /\ last.result = {1}


\* C24: in every reachable state each booking's guest belongs to the tenant
\* of the booking's property: create_booking rejects a property and a guest
\* of two different tenants for every caller, a super admin included.
C24_GuestOfPropertysTenant ==
    \A b \in DOMAIN bookings :
        /\ bookings[b].property_id \in DOMAIN properties
        /\ bookings[b].guest_id \in DOMAIN guests
        /\ properties[bookings[b].property_id].tenant_id = guests[bookings[b].guest_id].tenant_id

\* the super admin stored a booking that joins a property and a guest of
\* two tenants
C24_Witness ==
    /\ last.op = "create_booking"
    /\ IsSuperAdmin(last.caller[1])
    /\ last.response = Success
    /\ \E b \in last.result :
          properties[bookings[b].property_id].tenant_id # guests[bookings[b].guest_id].tenant_id


\* C25: in every reachable state each booking that has a room_id references
\* a stored room of the booking's own property: create_booking never stores a
\* booking whose room is a room of another property.
C25_RoomOfBookingsProperty ==
    \A b \in DOMAIN bookings :
        bookings[b].room_id # None
        => /\ bookings[b].room_id[1] \in DOMAIN rooms
           /\ rooms[bookings[b].room_id[1]].property_id = bookings[b].property_id

\* a booking of one property was stored with a room of the other property
C25_Witness ==
    /\ last.op = "create_booking"
    /\ last.response = Success
    /\ \E b \in last.result :
          /\ bookings[b].room_id # None
          /\ bookings[b].room_id[1] \in DOMAIN rooms
          /\ rooms[bookings[b].room_id[1]].property_id # bookings[b].property_id


\* C27: the guarded deletions keep every reference whole: after any sequence
\* of creates and deletes of properties, rooms, guests and bookings made one
\* at a time, every booking's property and guest are stored, every booking's
\* room, when set, is stored, and every room's property is stored.
C27_ReferencesKept ==
    /\ \A b \in DOMAIN bookings :
          /\ bookings[b].property_id \in DOMAIN properties
          /\ bookings[b].guest_id \in DOMAIN guests
          /\ bookings[b].room_id # None => bookings[b].room_id[1] \in DOMAIN rooms
    /\ \A r \in DOMAIN rooms : rooms[r].property_id \in DOMAIN properties

\* a delete of a property was refused while a room and a booking with that
\* room reference it
C27_Witness ==
    /\ last.op = "delete_property"
    /\ IsDependencyConflict(last.response)
    /\ \E r \in DOMAIN rooms, b \in DOMAIN bookings :
          /\ rooms[r].property_id = last.target[1]
          /\ bookings[b].property_id = last.target[1]
          /\ bookings[b].room_id = Some(r)


\* C26: no register and no create_tenant_admin call creates or promotes a
\* super admin, so the super admins stay those of startup; and a successful
\* create_tenant_admin stores role admin and the tenant id of the path,
\* whatever role and tenant id the body carries.
SuperAdmins(table) == {u \in DOMAIN table : table[u].role = "super_admin"}
C26_NoNewSuperAdmin ==
    [][/\ SuperAdmins(users') = SuperAdmins(users)
       /\ (last'.op = "create_tenant_admin" /\ last'.response = Success)
          => \A u \in last'.result :
                /\ u \notin DOMAIN users
                /\ users'[u].role = "admin"
                /\ users'[u].tenant_id = Some(last'.target[1].tenant_id)]_vars

\* an admin registered a user whose body carries the role super_admin
C26_Witness ==
    /\ last.op = "register"
    /\ last.response = Success
    /\ ~IsSuperAdmin(last.caller[1])
    /\ last.target[1].body.role = "super_admin"
    /\ \E u \in last.result : IsSuperAdmin(u)


SessionOf(slot) == IF slot \in DOMAIN requests THEN requests[slot].session ELSE "none"

\* C28: every database session that is acquired is released in the end on
\* every exit path: the session of a request after its handler returned or
\* raised, the session of startup_event after startup succeeded or one of
\* its steps raised.
C28_SessionsReleased ==
    \A slot \in {Startup} \cup SessionSlots :
        (SessionOf(slot) = "open") ~> (SessionOf(slot) = "closed")

\* startup_event raised after its query and left its session open, with
\* nothing more to run
C28_Witness ==
    /\ Startup \in DOMAIN requests
    /\ requests[Startup].pc = "raised"
    /\ requests[Startup].session = "open"
    /\ requests[Startup].generator = "closed"


\* C29: an unexpected persistence error raised while a request is served,
\* the dashboard statistics request included, is answered with a generic
\* internal error whose message does not hold the text of the exception.
RaisedError ==
    IF last.op \in {"get_dashboard", "get_bookings"} /\ last.target # None
    THEN last.target[1].exc ELSE None
C29_GenericInternalError ==
    RaisedError # None
    => /\ last.response.status = 500
       /\ last.response.code \in {"INTERNAL_ERROR", "DATABASE_ERROR"}
       /\ \A i \in DOMAIN last.response.detail :
             ~Contains(RaisedError[1], last.response.detail[i])

\* the dashboard request of a tenant's admin met a database error
C29_Witness ==
    /\ last.op = "get_dashboard"
    /\ ~IsSuperAdmin(last.caller[1])
    /\ RaisedError # None
    /\ last.response.status = 500


\* C30: wait_for_database ends after at most max_retries connection
\* attempts: it returns True at the first attempt that succeeds and attempts
\* no more, raises the OperationalError of the last attempt when all
\* max_retries attempts fail, and never returns False when max_retries >= 1.
WaitEnded == Waiting /\ frame.pc = "done"
C30_WaitForDatabase ==
    /\ <>WaitEnded
    /\ [](Waiting =>
            /\ frame.attempts <= frame.max_retries
            /\ frame.returned = Some(TRUE) => frame.attempts = frame.retries + 1
            /\ frame.raised # None
                  => /\ frame.attempts = frame.max_retries
                     /\ frame.retries = frame.max_retries
                     /\ frame.raised = Some(frame.max_retries)
            /\ frame.max_retries >= 1 => frame.returned # Some(FALSE)
            /\ WaitEnded <=> (frame.returned # None \/ frame.raised # None))
    /\ [][WaitEnded => UNCHANGED requests]_vars

\* all of three attempts failed and the third one's error was raised
C30_Witness ==
    /\ WaitEnded
    /\ frame.max_retries = 3
    /\ frame.attempts = 3
    /\ frame.raised = Some(3)

====
